---- MODULE Spec2Model ----
(***************************************************************************)
(* A model of CDEDatabase: the graph codec of database.py (flattening a    *)
(* record tree into per-type flat rows and reconstructing it) and the      *)
(* line-oriented JSON file backend of coder.py / jsoncoder.py (one data    *)
(* file and one id ledger per record type).                                *)
(*                                                                         *)
(* A data file is modelled as its text, cut into tokens: the one-character *)
(* tokens "{", "}", "," and "nl" (a newline), and "rec", the text          *)
(* json.dumps({row['_id']: row})[1:-1] of one flat row, which starts with  *)
(* a double quote and ends with "}".  "junk" is a rec that lost bytes.     *)
(***************************************************************************)
EXTENDS Integers, Sequences, FiniteSets, TLC

\* Bounds of the model.
MaxOps == 3
MaxStreams == 3

\* The record types of the object model and the databases (directories).
Types == {"M", "C", "L"}
DBs == {"A", "B"}

VARIABLES
    data,       \* data[db][t]: the tokens of <db>/<t>.json, <<>> when no file
    ledger,     \* ledger[db][t]: <db>/<t>_ids, [exists, lines]
    max_ids,    \* PlainTextCoder._max_ids of the live coder instance
    objs,       \* the caller's record instances
    ev,         \* the last call: its arguments, outcome and the state before it
    returned,   \* returned[db][t]: every value next_id has returned so far
    added,      \* added[db][t]: every identifier passed to add so far
    calls,      \* calls[db][t]: next_id calls made on the live coder instance
    nops,       \* number of calls made
    streams,    \* the Results instances created so far
    rev         \* the last call on a Results instance and the state before it

vars == <<data, ledger, max_ids, objs, ev, returned, added, calls, nops,
          streams, rev>>

----------------------------------------------------------------------------
(* Flat rows (dictionary forms).  Every type has the same three field      *)
(* slots: a scalar field, a single nested record and a list of nested      *)
(* records.  scalar = 0 and single = 0 mean that the key is not in the     *)
(* dictionary; listk tells whether the list key is absent, null or a list  *)
(* of identifiers.                                                        *)

NoRow == [id |-> 0, scalar |-> 0, single |-> 0, listk |-> "absent", list |-> <<>>]

Tok(k) == [t |-> k, row |-> NoRow]
RecTok(r) == [t |-> "rec", row |-> r]

NoFile == <<>>

\* JSONCoder._initialise: writelines('{\n\n') then writelines('}').
InitialFile == <<Tok("{"), Tok("nl"), Tok("nl"), Tok("}")>>

\* PlainTextCoder._get_file_name with initialise=True: the file is created
\* by _initialise when it does not exist.  (The cache test of line 140 looks
\* the record type up among the extensions, so it never hits and the path
\* is recomputed on every call.)
GetFile(f) == IF f = NoFile THEN InitialFile ELSE f

----------------------------------------------------------------------------
(* Characters and lines of a file.                                        *)

IsMulti(tok) == tok.t \in {"rec", "junk"}

FirstChar(line) ==
    IF IsMulti(line[1]) THEN "quote" ELSE line[1].t

LastChar(line) ==
    LET tok == line[Len(line)]
    IN IF tok.t = "rec" THEN "}" ELSE IF tok.t = "junk" THEN "other" ELSE tok.t

\* line[:-1]
DropLast(line) ==
    LET n == Len(line)
    IN IF IsMulti(line[n])
       THEN SubSeq(line, 1, n - 1) \o <<Tok("junk")>>
       ELSE SubSeq(line, 1, n - 1)

\* len(line) >= 2, so that line[-2] does not raise IndexError
HasTwoChars(line) == Len(line) >= 2 \/ (Len(line) = 1 /\ IsMulti(line[1]))

\* line[-2]
SecondLast(line) == LastChar(DropLast(line))

\* Python's iteration over the lines of a text file: each line keeps its
\* newline, the last one has none when the file does not end with one.
FirstNl(f) ==
    IF \E i \in 1..Len(f) : f[i].t = "nl"
    THEN CHOOSE i \in 1..Len(f) : f[i].t = "nl" /\ \A j \in 1..(i - 1) : f[j].t # "nl"
    ELSE 0

RECURSIVE SplitLines(_)
SplitLines(f) ==
    IF f = <<>> THEN <<>>
    ELSE LET n == FirstNl(f)
         IN IF n = 0 THEN <<f>>
            ELSE <<SubSeq(f, 1, n)>> \o SplitLines(SubSeq(f, n + 1, Len(f)))

\* json.loads('{' + text + '}') of the text of a record line: "rec" when it
\* is one "id": {...} entry, "empty" for '{}', "bad" when it raises.
Parse(text) ==
    IF text = <<>> THEN "empty"
    ELSE IF Len(text) = 1 /\ text[1].t = "rec" THEN "rec"
    ELSE "bad"

\* The text of a record line without its separator and newline, as update
\* and delete compute it (adjusted_line[1:-1]).
Adjusted(line) ==
    IF SecondLast(line) = "," THEN DropLast(DropLast(line)) ELSE DropLast(line)

----------------------------------------------------------------------------
(* Reading a data file (ijson).                                           *)

\* The file read as a whole is one JSON object: "{", then either nothing
\* or entries separated by commas, then "}"; newlines are white space.
RECURSIVE NoNl(_)
NoNl(f) ==
    IF f = <<>> THEN <<>>
    ELSE IF Head(f).t = "nl" THEN NoNl(Tail(f))
    ELSE <<Head(f)>> \o NoNl(Tail(f))

IsJSONObject(f) ==
    LET s == NoNl(f)
        n == Len(s)
    IN /\ n >= 2
       /\ s[1].t = "{"
       /\ s[n].t = "}"
       /\ n = 2 \/ n % 2 = 1
       /\ \A i \in 2..(n - 1) :
            IF i % 2 = 0 THEN s[i].t = "rec" ELSE s[i].t = ","

\* The rows of the file in file order (_objects).
RECURSIVE FileRows(_)
FileRows(f) ==
    IF f = <<>> THEN <<>>
    ELSE IF Head(f).t = "rec" THEN <<Head(f).row>> \o FileRows(Tail(f))
    ELSE FileRows(Tail(f))

RowIds(rows) == {rows[i].id : i \in 1..Len(rows)}

RECURSIVE FirstWithId(_, _)
\* Fault: the first entry is returned whatever its key.
FirstWithIdAny(rows, id) ==
    IF rows = <<>> THEN <<>> ELSE <<Head(rows)>>

FirstWithId(rows, id) ==
    IF rows = <<>> THEN <<>>
    ELSE IF Head(rows).id = id THEN <<Head(rows)>>
    ELSE FirstWithId(Tail(rows), id)

----------------------------------------------------------------------------
(* JSONCoder.record, JSONCoder.records and PlainTextCoder.contains_id.     *)

\* The outcome of a backend read: rows is <<>> for None.
ReadResult(rows, raised) == [rows |-> rows, raised |-> raised]

\* record(): the first top-level entry whose key is str(id_), else None;
\* ijson raises on a text that is not a JSON object.
CoderRecord(f0, id) ==
    LET f == GetFile(f0)
    IN IF ~IsJSONObject(f) THEN ReadResult(<<>>, TRUE)
       ELSE ReadResult(FirstWithId(FileRows(f), id), FALSE)

\* Fault: the entries are returned last line first.
CoderRecordsBackwards(f0) ==
    LET f == GetFile(f0)
        rows == FileRows(f)
    IN IF ~IsJSONObject(f) THEN ReadResult(<<>>, TRUE)
       ELSE ReadResult([i \in 1..Len(rows) |-> rows[Len(rows) + 1 - i]], FALSE)

\* records(): every top-level entry, in file order.
CoderRecords(f0) ==
    LET f == GetFile(f0)
    IN IF ~IsJSONObject(f) THEN ReadResult(<<>>, TRUE)
       ELSE ReadResult(FileRows(f), FALSE)

SeqRange(s) == {s[i] : i \in 1..Len(s)}

NoLedger == [exists |-> FALSE, lines |-> <<>>]

\* Fault: every identifier up to the largest of the ledger is reported as
\* contained.
ContainsIdUpToMax(l, id) == l.exists /\ \E k \in SeqRange(l.lines) : id <= k

\* Fault: the ledger is not scanned, nothing is reported as contained.
ContainsIdNever(l, id) == l.exists /\ id \in {}

\* contains_id(): a linear scan of the ledger, False when there is no file.
ContainsId(l, id) == l.exists /\ id \in SeqRange(l.lines)

----------------------------------------------------------------------------
(* PlainTextCoder.next_id.                                                *)

SetMax(S) == IF S = {} THEN 0 ELSE CHOOSE m \in S : \A x \in S : x <= m

\* The maximum of the ledger, 0 when there is no ledger file.
LedgerMax(l) == IF l.exists THEN SetMax(SeqRange(l.lines) \cup {0}) ELSE 0

\* Fault: the maximum is read from the ledger on every call, the cached
\* value is not used.
NextIdCacheNoCache(M, l, t) ==
    [x \in DOMAIN M \cup {t} |-> IF x = t THEN LedgerMax(l) + 1 ELSE M[x]]

\* Fault: the scan of the ledger starts from 1 instead of 0.
NextIdCacheFromOne(M, l, t) ==
    LET base == IF t \in DOMAIN M THEN M[t] ELSE SetMax({LedgerMax(l), 1})
    IN [x \in DOMAIN M \cup {t} |-> IF x = t THEN base + 1 ELSE M[x]]

\* The cache after the call; the value returned is the cache's entry.
\* The cache is keyed by the record type alone.
NextIdCache(M, l, t) ==
    LET base == IF t \in DOMAIN M THEN M[t] ELSE LedgerMax(l)
    IN [x \in DOMAIN M \cup {t} |-> IF x = t THEN base + 1 ELSE M[x]]

----------------------------------------------------------------------------
(* add.  A batch is the dictionary {type: rows} in insertion order: a      *)
(* sequence of [typ, rows].                                               *)

RowIdSeq(rows) == [i \in 1..Len(rows) |-> rows[i].id]

\* Fault: only the last record's identifier is written to the ledger.
LedgerAddLastOnly(l, rows) ==
    [exists |-> TRUE,
     lines |-> l.lines \o (IF rows = <<>> THEN <<>> ELSE <<rows[Len(rows)].id>>)]

\* PlainTextCoder.add for one type: open(id_location, 'a+') creates the
\* ledger, one line per row is appended.
LedgerAdd(l, rows) == [exists |-> TRUE, lines |-> l.lines \o RowIdSeq(rows)]

RECURSIVE PlainAdd(_, _)
PlainAdd(L, batch) ==
    IF batch = <<>> THEN L
    ELSE PlainAdd([L EXCEPT ![Head(batch).typ] = LedgerAdd(@, Head(batch).rows)],
                  Tail(batch))

\* The record lines add writes: every one but the last ends with a comma.
RECURSIVE RowLines(_)
RowLines(rows) ==
    IF rows = <<>> THEN <<>>
    ELSE IF Len(rows) = 1 THEN <<RecTok(rows[1]), Tok("nl")>>
    ELSE <<RecTok(Head(rows)), Tok(","), Tok("nl")>> \o RowLines(Tail(rows))

FileResult(f, raised) == [file |-> f, raised |-> raised]

\* Fault: the file is written anew with the rows of the batch alone.
AddFileAnew(f0, rows) ==
    IF rows = <<>> THEN FileResult(f0, FALSE)
    ELSE FileResult(<<Tok("{"), Tok("nl")>> \o RowLines(rows) \o <<Tok("}")>>, FALSE)

\* JSONCoder.add for one type.  The last two bytes are cut off (seek(-2)
\* raises OSError on a shorter file), the byte before them tells whether
\* the file holds records, and the new lines and the closing brace follow.
AddFile(f0, rows) ==
    IF rows = <<>> THEN FileResult(f0, FALSE)
    ELSE LET f == GetFile(f0)
         IN IF ~HasTwoChars(f) THEN FileResult(f, TRUE)
            ELSE LET cut == DropLast(DropLast(f))
                 IN IF cut = <<>> THEN FileResult(cut, TRUE)
                    ELSE FileResult(
                            cut \o (IF LastChar(cut) # "nl"
                                    THEN <<Tok(","), Tok("nl")>> ELSE <<>>)
                                \o RowLines(rows) \o <<Tok("}")>>,
                            FALSE)

StoreResult(D, L, raised) == [data |-> D, ledger |-> L, raised |-> raised]

RECURSIVE JSONAddFiles(_, _, _)
JSONAddFiles(D, L, batch) ==
    IF batch = <<>> THEN StoreResult(D, L, FALSE)
    ELSE LET t == Head(batch).typ
             r == AddFile(D[t], Head(batch).rows)
             D1 == [D EXCEPT ![t] = r.file]
         IN IF r.raised THEN StoreResult(D1, L, TRUE)
            ELSE JSONAddFiles(D1, L, Tail(batch))

\* JSONCoder.add: the ledgers of every type of the batch first (super().add),
\* then the data files.  D and L are the files of one database.
CoderAdd(D, L, batch) == JSONAddFiles(D, PlainAdd(L, batch), batch)

----------------------------------------------------------------------------
(* update.                                                                *)

\* to_update: later rows of the batch overwrite earlier ones of the same id.
UpdMap(rows) ==
    [i \in RowIds(rows) |->
        rows[CHOOSE k \in 1..Len(rows) :
                /\ rows[k].id = i
                /\ \A j \in (k + 1)..Len(rows) : rows[j].id # i]]

\* A scan of update or delete yields the text written to the temporary
\* file; the token "raise" ends it when the scan raised.
Raise == <<Tok("raise")>>
Raised(out) == out # <<>> /\ out[Len(out)].t = "raise"

\* The loop of JSONCoder.update over the lines of the old file.
RECURSIVE UpdateScan(_, _)

\* Fault: a line that does not parse is skipped, the scan goes on.
UpdateScanSkipsBad(lines, upd) ==
    IF lines = <<>> THEN <<>>
    ELSE LET line == Head(lines)
         IN IF FirstChar(line) \in {"{", "}"}
            THEN line \o UpdateScan(Tail(lines), upd)
            ELSE IF ~HasTwoChars(line) THEN Raise
            ELSE LET adj == Adjusted(line)
                     p == Parse(adj)
                 IN IF p = "bad" THEN UpdateScan(Tail(lines), upd)
                    ELSE IF p = "rec" /\ adj[1].row.id \in DOMAIN upd
                    THEN LET key == adj[1].row.id
                             new_line ==
                                 <<RecTok(upd[key])>>
                                 \o (IF SecondLast(line) = "," THEN <<Tok(",")>> ELSE <<>>)
                                 \o <<Tok("nl")>>
                             left == [k \in DOMAIN upd \ {key} |-> upd[k]]
                         IN new_line \o UpdateScan(Tail(lines), left)
                    ELSE line \o UpdateScan(Tail(lines), upd)

UpdateScan(lines, upd) ==
    IF lines = <<>> THEN <<>>
    ELSE LET line == Head(lines)
         IN IF FirstChar(line) \in {"{", "}"}
            THEN line \o UpdateScan(Tail(lines), upd)
            ELSE IF ~HasTwoChars(line) THEN Raise
            ELSE LET adj == Adjusted(line)
                     p == Parse(adj)
                 IN IF p = "bad" THEN Raise
                    ELSE IF p = "rec" /\ adj[1].row.id \in DOMAIN upd
                    THEN LET key == adj[1].row.id
                             new_line ==
                                 <<RecTok(upd[key])>>
                                 \o (IF SecondLast(line) = "," THEN <<Tok(",")>> ELSE <<>>)
                                 \o <<Tok("nl")>>
                             left == [k \in DOMAIN upd \ {key} |-> upd[k]]
                         IN new_line \o UpdateScan(Tail(lines), left)
                    ELSE line \o UpdateScan(Tail(lines), upd)

\* JSONCoder.update for one type: nothing is opened for an empty batch; the
\* temporary file replaces the data file only when the scan completes.
UpdateFile(f0, rows) ==
    IF rows = <<>> THEN FileResult(f0, FALSE)
    ELSE LET f == GetFile(f0)
             out == UpdateScan(SplitLines(f), UpdMap(rows))
         IN IF Raised(out) THEN FileResult(f, TRUE) ELSE FileResult(out, FALSE)

RECURSIVE CoderUpdate(_, _, _)
CoderUpdate(D, L, batch) ==
    IF batch = <<>> THEN StoreResult(D, L, FALSE)
    ELSE LET t == Head(batch).typ
             r == UpdateFile(D[t], Head(batch).rows)
             D1 == [D EXCEPT ![t] = r.file]
         IN IF r.raised THEN StoreResult(D1, L, TRUE)
            ELSE CoderUpdate(D1, L, Tail(batch))

----------------------------------------------------------------------------
(* delete.                                                                *)

RECURSIVE DropIds(_, _)
DropIds(lines, ids) ==
    IF lines = <<>> THEN <<>>
    ELSE IF Head(lines) \in ids THEN DropIds(Tail(lines), ids)
    ELSE <<Head(lines)>> \o DropIds(Tail(lines), ids)

LedgerResult(l, raised) == [ledger |-> l, raised |-> raised]

\* Fault: the ledger keeps the lines of the deleted identifiers.
LedgerDeleteKeeps(l, ids) ==
    IF ids = {} THEN LedgerResult(l, FALSE)
    ELSE IF ~l.exists THEN LedgerResult(l, TRUE)
    ELSE LedgerResult(l, FALSE)

\* PlainTextCoder.delete: the ledger is rewritten without the lines of the
\* given identifiers; open() raises when there is no ledger file.
LedgerDelete(l, ids) ==
    IF ids = {} THEN LedgerResult(l, FALSE)
    ELSE IF ~l.exists THEN LedgerResult(l, TRUE)
    ELSE LedgerResult([exists |-> TRUE, lines |-> DropIds(l.lines, ids)], FALSE)

RECURSIVE DeleteScan(_, _, _, _)

\* Fault: the buffered previous_line is not written at the closing marker.
DeleteScanNoFlush(lines, ids, prev, num) ==
    IF lines = <<>> THEN <<>>
    ELSE LET line == Head(lines)
         IN IF FirstChar(line) \in {"{", "}"}
            THEN (IF num = 0 /\ FirstChar(line) # "{" THEN <<Tok("nl")>> ELSE <<>>)
                 \o line
                 \o DeleteScan(Tail(lines), ids, prev, num)
            ELSE IF ~HasTwoChars(line) THEN Raise
            ELSE LET adj == Adjusted(line)
                     p == Parse(adj)
                 IN IF p = "bad" THEN Raise
                    ELSE IF p = "rec" /\ adj[1].row.id \in ids
                    THEN DeleteScan(Tail(lines), ids, prev, num)
                    ELSE (IF prev # <<>> THEN prev \o <<Tok(","), Tok("nl")>> ELSE <<>>)
                         \o DeleteScan(Tail(lines), ids, adj, num + 1)

\* Fault: the lines that are kept are copied as they are, separators
\* included, instead of being renormalised.
DeleteScanVerbatim(lines, ids, prev, num) ==
    IF lines = <<>> THEN <<>>
    ELSE LET line == Head(lines)
         IN IF FirstChar(line) \in {"{", "}"}
            THEN (IF num = 0 /\ FirstChar(line) # "{" THEN <<Tok("nl")>> ELSE <<>>)
                 \o line
                 \o DeleteScan(Tail(lines), ids, prev, num)
            ELSE IF ~HasTwoChars(line) THEN Raise
            ELSE LET adj == Adjusted(line)
                     p == Parse(adj)
                 IN IF p = "bad" THEN Raise
                    ELSE IF p = "rec" /\ adj[1].row.id \in ids
                    THEN DeleteScan(Tail(lines), ids, prev, num)
                    ELSE line \o DeleteScan(Tail(lines), ids, adj, num + 1)

\* The loop of JSONCoder.delete.  prev is previous_line (<<>> for None or
\* the empty string, both false), num is num_records_written.
DeleteScan(lines, ids, prev, num) ==
    IF lines = <<>> THEN <<>>
    ELSE LET line == Head(lines)
         IN IF FirstChar(line) \in {"{", "}"}
            THEN (IF prev # <<>> THEN prev \o <<Tok("nl")>> ELSE <<>>)
                 \o (IF num = 0 /\ FirstChar(line) # "{" THEN <<Tok("nl")>> ELSE <<>>)
                 \o line
                 \o DeleteScan(Tail(lines), ids, prev, num)
            ELSE IF ~HasTwoChars(line) THEN Raise
            ELSE LET adj == Adjusted(line)
                     p == Parse(adj)
                 IN IF p = "bad" THEN Raise
                    ELSE IF p = "rec" /\ adj[1].row.id \in ids
                    THEN DeleteScan(Tail(lines), ids, prev, num)
                    ELSE (IF prev # <<>> THEN prev \o <<Tok(","), Tok("nl")>> ELSE <<>>)
                         \o DeleteScan(Tail(lines), ids, adj, num + 1)

DeleteFile(f0, ids) ==
    IF ids = {} THEN FileResult(f0, FALSE)
    ELSE LET f == GetFile(f0)
             out == DeleteScan(SplitLines(f), ids, <<>>, 0)
         IN IF Raised(out) THEN FileResult(f, TRUE) ELSE FileResult(out, FALSE)

\* Fault: the rows of the nested type are deleted with their parents.
CoderDeleteCascades(D, L, t, ids) ==
    LET lr == LedgerDelete(L[t], ids)
        st == IF t = "M" THEN "C" ELSE "L"
        sub == RowIds(FileRows(D[st]))
    IN IF lr.raised THEN StoreResult(D, L, TRUE)
       ELSE LET fr == DeleteFile(D[t], ids)
            IN IF fr.raised \/ sub = {}
               THEN StoreResult([D EXCEPT ![t] = fr.file],
                                [L EXCEPT ![t] = lr.ledger], fr.raised)
               ELSE StoreResult([D EXCEPT ![t] = fr.file,
                                          ![st] = DeleteFile(D[st], sub).file],
                                [L EXCEPT ![t] = lr.ledger,
                                          ![st] = LedgerDelete(L[st], sub).ledger],
                                FALSE)

\* JSONCoder.delete: the ledger first (super().delete), then the data file.
CoderDelete(D, L, t, ids) ==
    LET lr == LedgerDelete(L[t], ids)
    IN IF lr.raised THEN StoreResult(D, L, TRUE)
       ELSE LET fr == DeleteFile(D[t], ids)
            IN StoreResult([D EXCEPT ![t] = fr.file],
                           [L EXCEPT ![t] = lr.ledger],
                           fr.raised)

----------------------------------------------------------------------------
(* The object model the codec works on (chemdataextractor's BaseModel,     *)
(* seen through record.fields, _get_nested and _is_list_type).  A record   *)
(* instance has an identifier (0 for None), a scalar field (0 for None), a *)
(* single nested record (0 for None) and a list of nested records (haslist *)
(* FALSE for None).  The nested records of an "M" are "C"s, the nested     *)
(* record of a "C" is an "L".                                             *)

Obj == 1..5
ObjType == <<"M", "M", "C", "C", "L">>
NoType == "none"

SingleType(t) == IF t = "M" THEN "C" ELSE IF t = "C" THEN "L" ELSE NoType
ListType(t) == IF t = "M" THEN "C" ELSE NoType

\* The database the CDEDatabase object was constructed for.
DbName == "A"

\* field.serialize of a scalar field: the scalar values of the model are
\* JSON primitives, which serialize to themselves.
Serialize(v) == v

\* The nested records of a record in field order: the single one, then the
\* elements of the list.
Children(H, o) ==
    (IF H[o].single # 0 THEN <<H[o].single>> ELSE <<>>)
    \o (IF H[o].haslist THEN H[o].list ELSE <<>>)

\* assign_ids.  S is [objs, max, got]: the instances, the coder's cache and
\* the <<type, id>> pairs next_id has returned during the call.
RECURSIVE AssignIds(_, _, _)
RECURSIVE AssignIdsAll(_, _, _)
\* Fault: next_id is called for every record, also for one that has an
\* identifier.
AssignIdsAfresh(S, L, o) ==
    LET t == ObjType[o]
        M == NextIdCache(S.max, L[t], t)
        S1 == [objs |-> [S.objs EXCEPT ![o].id = M[t]],
               max |-> M,
               got |-> S.got \cup {<<t, M[t]>>}]
    IN AssignIdsAll(S1, L, Children(S1.objs, o))

AssignIds(S, L, o) ==
    LET t == ObjType[o]
        S1 == IF S.objs[o].id # 0 THEN S
              ELSE LET M == NextIdCache(S.max, L[t], t)
                   IN [objs |-> [S.objs EXCEPT ![o].id = M[t]],
                       max |-> M,
                       got |-> S.got \cup {<<t, M[t]>>}]
    IN AssignIdsAll(S1, L, Children(S1.objs, o))

AssignIdsAll(S, L, os) ==
    IF os = <<>> THEN S
    ELSE AssignIdsAll(AssignIds(S, L, Head(os)), L, Tail(os))

\* dictionary_form of a record whose tree has its identifiers: the rows of
\* the nested records, then the record's own row.
RECURSIVE DictionaryForm(_, _)
RECURSIVE DictionaryFormAll(_, _)

\* Fault: the nested field is given the record's own identifier instead
\* of the sub-record's.
DictionaryFormOwnId(H, o) ==
    LET r == H[o]
        row == [id |-> r.id,
                scalar |-> Serialize(r.scalar),
                single |-> IF r.single # 0 THEN r.id ELSE 0,
                listk |-> IF ~r.haslist THEN "absent"
                          ELSE IF r.list = <<>> THEN "null" ELSE "ids",
                list |-> IF r.haslist
                         THEN [i \in 1..Len(r.list) |-> H[r.list[i]].id]
                         ELSE <<>>]
    IN (IF r.single # 0 THEN DictionaryForm(H, r.single) ELSE <<>>)
       \o (IF r.haslist THEN DictionaryFormAll(H, r.list) ELSE <<>>)
       \o <<[typ |-> ObjType[o], row |-> row]>>

\* Fault: the record's own row is put before the rows of its nested records.
DictionaryFormRootFirst(H, o) ==
    LET r == H[o]
        row == [id |-> r.id,
                scalar |-> Serialize(r.scalar),
                single |-> IF r.single # 0 THEN H[r.single].id ELSE 0,
                listk |-> IF ~r.haslist THEN "absent"
                          ELSE IF r.list = <<>> THEN "null" ELSE "ids",
                list |-> IF r.haslist
                         THEN [i \in 1..Len(r.list) |-> H[r.list[i]].id]
                         ELSE <<>>]
    IN <<[typ |-> ObjType[o], row |-> row]>>
       \o (IF r.single # 0 THEN DictionaryForm(H, r.single) ELSE <<>>)
       \o (IF r.haslist THEN DictionaryFormAll(H, r.list) ELSE <<>>)

\* Fault: the field of an empty nested list is left out of the row.
DictionaryFormOmitsEmpty(H, o) ==
    LET r == H[o]
        row == [id |-> r.id,
                scalar |-> Serialize(r.scalar),
                single |-> IF r.single # 0 THEN H[r.single].id ELSE 0,
                listk |-> IF ~r.haslist \/ r.list = <<>> THEN "absent" ELSE "ids",
                list |-> IF r.haslist
                         THEN [i \in 1..Len(r.list) |-> H[r.list[i]].id]
                         ELSE <<>>]
    IN (IF r.single # 0 THEN DictionaryForm(H, r.single) ELSE <<>>)
       \o (IF r.haslist THEN DictionaryFormAll(H, r.list) ELSE <<>>)
       \o <<[typ |-> ObjType[o], row |-> row]>>

DictionaryForm(H, o) ==
    LET r == H[o]
        row == [id |-> r.id,
                scalar |-> Serialize(r.scalar),
                single |-> IF r.single # 0 THEN H[r.single].id ELSE 0,
                listk |-> IF ~r.haslist THEN "absent"
                          ELSE IF r.list = <<>> THEN "null" ELSE "ids",
                list |-> IF r.haslist
                         THEN [i \in 1..Len(r.list) |-> H[r.list[i]].id]
                         ELSE <<>>]
    IN (IF r.single # 0 THEN DictionaryForm(H, r.single) ELSE <<>>)
       \o (IF r.haslist THEN DictionaryFormAll(H, r.list) ELSE <<>>)
       \o <<[typ |-> ObjType[o], row |-> row]>>

DictionaryFormAll(H, os) ==
    IF os = <<>> THEN <<>>
    ELSE DictionaryForm(H, Head(os)) \o DictionaryFormAll(H, Tail(os))

\* The grouping of dictionary_forms: {type: rows}, the types in the order
\* of their first row.
RECURSIVE GroupByType(_, _)
GroupByType(forms, batch) ==
    IF forms = <<>> THEN batch
    ELSE LET e == Head(forms)
         IN IF \E i \in 1..Len(batch) : batch[i].typ = e.typ
            THEN LET i == CHOOSE k \in 1..Len(batch) : batch[k].typ = e.typ
                 IN GroupByType(Tail(forms),
                                [batch EXCEPT ![i].rows = Append(@, e.row)])
            ELSE GroupByType(Tail(forms),
                             Append(batch, [typ |-> e.typ, rows |-> <<e.row>>]))

\* dictionary_forms: [objs, max, got, batch].
DictionaryForms(H, M, L, roots) ==
    LET S == AssignIdsAll([objs |-> H, max |-> M, got |-> {}], L, roots)
    IN [objs |-> S.objs, max |-> S.max, got |-> S.got,
        batch |-> GroupByType(DictionaryFormAll(S.objs, roots), <<>>)]

\* create_record: <<>> for None, else one record
\* [id, scalar, single, list] whose nested records are fetched with
\* coder.record; a list element that resolves to None is left out.
RECURSIVE CreateRecord(_, _, _)
RECURSIVE CreateRecords(_, _, _)
CreateRecord(D, t, rowopt) ==
    IF rowopt = <<>> THEN <<>>
    ELSE LET row == rowopt[1]
         IN <<[id |-> row.id,
               scalar |-> row.scalar,
               single |-> IF row.single # 0
                          THEN CreateRecord(D, SingleType(t),
                                   CoderRecord(D[SingleType(t)], row.single).rows)
                          ELSE <<>>,
               list |-> IF row.listk = "ids"
                        THEN CreateRecords(D, ListType(t), row.list)
                        ELSE <<>>]>>

\* Fault: the loop over a list stops at the first element without a row.
CreateRecordsUntilMiss(D, t, ids) ==
    IF ids = <<>> THEN <<>>
    ELSE LET sub == CreateRecord(D, t, CoderRecord(D[t], Head(ids)).rows)
         IN IF sub = <<>> THEN <<>> ELSE sub \o CreateRecords(D, t, Tail(ids))

CreateRecords(D, t, ids) ==
    IF ids = <<>> THEN <<>>
    ELSE CreateRecord(D, t, CoderRecord(D[t], Head(ids)).rows)
         \o CreateRecords(D, t, Tail(ids))

\* CDEDatabase.record: create_record of what coder.record returns.
DbRecordTree(D, t, id) == CreateRecord(D, t, CoderRecord(D[t], id).rows)

\* CDEDatabase.records, consumed to its end: create_record of every row.
DbRecordsTrees(D, t) ==
    LET rows == CoderRecords(D[t]).rows
    IN [i \in 1..Len(rows) |-> CreateRecord(D, t, <<rows[i]>>)[1]]

\* The types whose data file a reconstruction of rows of type t opens.
RECURSIVE Opened(_, _, _)
Opened(D, t, rows) ==
    LET single == {i \in 1..Len(rows) : rows[i].single # 0}
        list == {i \in 1..Len(rows) : rows[i].listk = "ids"}
        subs(tt, ids) ==
            [k \in 1..Len(ids) |-> CoderRecord(D[tt], ids[k]).rows]
    IN {t}
       \cup UNION {Opened(D, SingleType(t),
                          CoderRecord(D[SingleType(t)], rows[i].single).rows) : i \in single}
       \cup UNION {UNION {Opened(D, ListType(t), subs(ListType(t), rows[i].list)[k])
                            : k \in 1..Len(rows[i].list)} : i \in list}

\* The record an instance stands for, in the form CreateRecord builds: an
\* empty list and an unset list field are the same (the field's default).
RECURSIVE ObjTree(_, _)
ObjTree(H, o) ==
    [id |-> H[o].id,
     scalar |-> H[o].scalar,
     single |-> IF H[o].single # 0 THEN <<ObjTree(H, H[o].single)>> ELSE <<>>,
     list |-> IF H[o].haslist
              THEN [i \in 1..Len(H[o].list) |-> ObjTree(H, H[o].list[i])]
              ELSE <<>>]

----------------------------------------------------------------------------
(* CDEDatabase.write: the classification of the rows of one type.         *)

\* The loop of write over records_list: a row whose identifier was taken
\* earlier in the call is dropped, the others go to update_records when
\* contains_id answers True and to add_records when not.
RECURSIVE Classify(_, _, _)

\* Fault: taken_ids is not consulted, every occurrence is classified.
ClassifyEvery(l, rows, taken) ==
    IF rows = <<>> THEN [add |-> <<>>, upd |-> <<>>]
    ELSE LET r == Head(rows)
             rest == Classify(l, Tail(rows), taken \cup {r.id})
         IN IF ContainsId(l, r.id)
            THEN [add |-> rest.add, upd |-> <<r>> \o rest.upd]
            ELSE [add |-> <<r>> \o rest.add, upd |-> rest.upd]

\* Fault: the two branches of the contains_id test are exchanged.
ClassifySwapped(l, rows, taken) ==
    IF rows = <<>> THEN [add |-> <<>>, upd |-> <<>>]
    ELSE LET r == Head(rows)
         IN IF r.id \in taken THEN Classify(l, Tail(rows), taken)
            ELSE LET rest == Classify(l, Tail(rows), taken \cup {r.id})
                 IN IF ~ContainsId(l, r.id)
                    THEN [add |-> rest.add, upd |-> <<r>> \o rest.upd]
                    ELSE [add |-> <<r>> \o rest.add, upd |-> rest.upd]

\* Fault: contains_id is not asked, every record not yet taken is added.
ClassifyAllNew(l, rows, taken) ==
    IF rows = <<>> THEN [add |-> <<>>, upd |-> <<>>]
    ELSE LET r == Head(rows)
         IN IF r.id \in taken THEN Classify(l, Tail(rows), taken)
            ELSE LET rest == Classify(l, Tail(rows), taken \cup {r.id})
                 IN [add |-> <<r>> \o rest.add, upd |-> rest.upd]

Classify(l, rows, taken) ==
    IF rows = <<>> THEN [add |-> <<>>, upd |-> <<>>]
    ELSE LET r == Head(rows)
         IN IF r.id \in taken THEN Classify(l, Tail(rows), taken)
            ELSE LET rest == Classify(l, Tail(rows), taken \cup {r.id})
                 IN IF ContainsId(l, r.id)
                    THEN [add |-> rest.add, upd |-> <<r>> \o rest.upd]
                    ELSE [add |-> <<r>> \o rest.add, upd |-> rest.upd]

\* The loop of write over the types: coder.add then coder.update, each with
\* the rows of that one type.
RECURSIVE WriteTypes(_, _, _)
WriteTypes(D, L, batch) ==
    IF batch = <<>> THEN StoreResult(D, L, FALSE)
    ELSE LET t == Head(batch).typ
             c == Classify(L[t], Head(batch).rows, {})
             a == CoderAdd(D, L, <<[typ |-> t, rows |-> c.add]>>)
         IN IF a.raised THEN a
            ELSE LET u == CoderUpdate(a.data, a.ledger, <<[typ |-> t, rows |-> c.upd]>>)
                 IN IF u.raised THEN u
                    ELSE WriteTypes(u.data, u.ledger, Tail(batch))

\* The <<type, id>> pairs a batch hands to coder.add.
BatchIds(batch) ==
    UNION {{<<batch[i].typ, batch[i].rows[k].id>> : k \in 1..Len(batch[i].rows)}
             : i \in 1..Len(batch)}

WriteAdded(L, batch) ==
    BatchIds([i \in 1..Len(batch) |->
                 [typ |-> batch[i].typ,
                  rows |-> Classify(L[batch[i].typ], batch[i].rows, {}).add]])

----------------------------------------------------------------------------
(* Results: a wrapper around an iterable.  The iterable is a generator     *)
(* (one pass, as the one Database.records builds), a list (every loop over *)
(* it starts again at its first element), or the generator that filtered   *)
(* builds over the iterable of the instance it was called on.              *)

\* The elements of the results test and their sort key, element.value[0].
Elems == {"a", "b", "c"}
Val(e) == CASE e = "a" -> 200 [] e = "b" -> 150 [] OTHER -> 600

\* The filter functions: value above the threshold of the test, or not.
Threshold == 160
Preds == {"gt", "le"}
Holds(p, e) == IF p = "gt" THEN Val(e) > Threshold ELSE ~(Val(e) > Threshold)

\* One Results instance.  pos is the position of its generator in items
\* (kind "gen") or of the list iterator its generator holds (kind "filter"
\* over a list).  alled and got record the last all() made on the instance.
NoStream ==
    [kind |-> "none", items |-> <<>>, pos |-> 0, parent |-> 0, pred |-> "gt",
     alled |-> FALSE, got |-> <<>>]

Source(kind, items) == [NoStream EXCEPT !.kind = kind, !.items = items]

NoStreams == [i \in 1..MaxStreams |-> NoStream]

NoRev == [op |-> "init", s |-> 0, new |-> 0, pred |-> "gt", out |-> <<>>,
          raised |-> FALSE, pre |-> NoStreams]

\* next() on the iterable of instance i: [R, out], out empty at the end.
\* The generator of filtered loops over the iterable of its parent: a parent
\* generator is advanced itself, a parent list is read through an iterator
\* of the filter's own.
RECURSIVE Pull(_, _)

\* Fault: the generator of filtered yields every element, the filter
\* function is not applied.
PullUnfiltered(R, i) ==
    LET s == R[i]
    IN IF s.kind = "gen"
       THEN IF s.pos < Len(s.items)
            THEN [R |-> [R EXCEPT ![i].pos = @ + 1], out |-> <<s.items[s.pos + 1]>>]
            ELSE [R |-> R, out |-> <<>>]
       ELSE LET p == s.parent
            IN IF R[p].kind = "list"
               THEN IF s.pos < Len(R[p].items)
                    THEN [R |-> [R EXCEPT ![i].pos = @ + 1],
                          out |-> <<R[p].items[s.pos + 1]>>]
                    ELSE [R |-> R, out |-> <<>>]
               ELSE Pull(R, p)

Pull(R, i) ==
    LET s == R[i]
    IN IF s.kind = "gen"
       THEN IF s.pos < Len(s.items)
            THEN [R |-> [R EXCEPT ![i].pos = @ + 1], out |-> <<s.items[s.pos + 1]>>]
            ELSE [R |-> R, out |-> <<>>]
       ELSE LET p == s.parent
                src == IF R[p].kind = "list"
                       THEN IF s.pos < Len(R[p].items)
                            THEN [R |-> [R EXCEPT ![i].pos = @ + 1],
                                  out |-> <<R[p].items[s.pos + 1]>>]
                            ELSE [R |-> R, out |-> <<>>]
                       ELSE Pull(R, p)
            IN IF src.out = <<>> THEN src
               ELSE IF Holds(s.pred, src.out[1]) THEN src
               ELSE Pull(src.R, i)

\* The loop "for element in self.iterable" run to its end on a generator.
RECURSIVE Drain(_, _)
Drain(R, i) ==
    LET n == Pull(R, i)
    IN IF n.out = <<>> THEN n
       ELSE LET rest == Drain(n.R, i)
            IN [R |-> rest.R, out |-> n.out \o rest.out]

\* Fault: all() empties the list it has looped over.
AllEmptiesList(R, i) ==
    LET r == IF R[i].kind = "list"
             THEN [R |-> [R EXCEPT ![i].items = <<>>], out |-> R[i].items]
             ELSE Drain(R, i)
    IN [R |-> [r.R EXCEPT ![i].alled = TRUE, ![i].got = r.out], out |-> r.out]

\* Results.all: the loop over self.iterable; a list is not consumed by it.
All(R, i) ==
    LET r == IF R[i].kind = "list" THEN [R |-> R, out |-> R[i].items] ELSE Drain(R, i)
    IN [R |-> [r.R EXCEPT ![i].alled = TRUE, ![i].got = r.out], out |-> r.out]

\* A for statement over instance i: iter() calls __iter__, which returns
\* self.iterable.  A generator is its own iterator and is run to its end;
\* a list is not an iterator, and iter() raises TypeError.
Loop(R, i) ==
    IF R[i].kind = "list" THEN [R |-> R, out |-> <<>>, raised |-> TRUE]
    ELSE LET d == Drain(R, i) IN [R |-> d.R, out |-> d.out, raised |-> FALSE]

\* sorted(els, key=key): stable, non-decreasing in the key.
RECURSIVE InsertByKey(_, _)

\* Fault: the elements keep the order of the source.
InsertAtEnd(e, s) == s \o <<e>>

InsertByKey(e, s) ==
    IF s = <<>> THEN <<e>>
    ELSE IF Val(Head(s)) <= Val(e) THEN <<Head(s)>> \o InsertByKey(e, Tail(s))
    ELSE <<e>> \o s

RECURSIVE SortedByKey(_)
SortedByKey(s) ==
    IF s = <<>> THEN <<>>
    ELSE InsertByKey(s[Len(s)], SortedByKey(SubSeq(s, 1, Len(s) - 1)))

\* The instance a call creates.
HasSlot(R) == \E j \in 1..MaxStreams : R[j].kind = "none"
NewSlot(R) == CHOOSE j \in 1..MaxStreams :
                 R[j].kind = "none" /\ \A k \in 1..(j - 1) : R[k].kind # "none"

----------------------------------------------------------------------------
(* State, and the record of the last call.                                *)

Event(op, db, t, ids, id, roots, batch, raised, rows, trees, ret) ==
    [op |-> op, db |-> db, typ |-> t, ids |-> ids, id |-> id, roots |-> roots,
     batch |-> batch, raised |-> raised, rows |-> rows, trees |-> trees,
     ret |-> ret,
     preData |-> data, preLedger |-> ledger, preObjs |-> objs,
     preMax |-> max_ids, preReturned |-> returned, preCalls |-> calls]

NewObj(single, haslist, list) ==
    [id |-> 0, scalar |-> 1, single |-> single, haslist |-> haslist, list |-> list]

\* The record trees the caller has built: the "M"s 1 and 2 over the "C"s 3
\* and 4 and the "L" 5, none with an identifier yet.
Heaps ==
    {<<NewObj(s1, l1 # <<0>>, IF l1 = <<0>> THEN <<>> ELSE l1),
       NewObj(s2, FALSE, <<>>),
       NewObj(s3, FALSE, <<>>),
       NewObj(0, FALSE, <<>>),
       NewObj(0, FALSE, <<>>)>>
        : s1 \in {0, 3, 4}, l1 \in {<<>>, <<3, 4>>}, s2 \in {4}, s3 \in {5}}

InitStore ==
    /\ rev = NoRev
    /\ data = [db \in DBs |-> [t \in Types |-> NoFile]]
    /\ ledger = [db \in DBs |-> [t \in Types |-> NoLedger]]
    /\ max_ids = <<>>
    /\ returned = [db \in DBs |-> [t \in Types |-> {}]]
    /\ added = [db \in DBs |-> [t \in Types |-> {}]]
    /\ calls = [db \in DBs |-> [t \in Types |-> 0]]
    /\ nops = 0

Init ==
    /\ InitStore
    /\ streams = NoStreams
    /\ objs \in Heaps
    /\ ev = Event("init", DbName, "M", {}, 0, <<>>, <<>>, FALSE, <<>>, <<>>, 0)

Record(got, db) ==
    [d \in DBs |-> [t \in Types |->
        IF d = db THEN returned[d][t] \cup {p[2] : p \in {q \in got : q[1] = t}}
        ELSE returned[d][t]]]

Count(got, db) ==
    [d \in DBs |-> [t \in Types |->
        IF d = db THEN calls[d][t] + Cardinality({q \in got : q[1] = t})
        ELSE calls[d][t]]]

RecordAdded(got, db) ==
    [d \in DBs |-> [t \in Types |->
        IF d = db THEN added[d][t] \cup {p[2] : p \in {q \in got : q[1] = t}}
        ELSE added[d][t]]]

----------------------------------------------------------------------------
(* The calls on a CDEDatabase over a JSONCoder.                           *)

\* The arguments the calls are made with.
Roots == {<<1>>, <<2>>, <<1, 2>>, <<3>>}
UpdateRoots == {<<1>>, <<2>>}
CallerIds == {1, 2}
DeleteIds == {{}, {1}, {1, 2}}
ReadTypes == {"M", "C"}

\* CDEDatabase.add
DbAdd(roots) ==
    /\ nops < MaxOps
    /\ \E df \in {DictionaryForms(objs, max_ids, ledger[DbName], roots)} :
       \E r \in {CoderAdd(data[DbName], ledger[DbName], df.batch)} :
          /\ objs' = df.objs
          /\ max_ids' = df.max
          /\ data' = [data EXCEPT ![DbName] = r.data]
          /\ ledger' = [ledger EXCEPT ![DbName] = r.ledger]
          /\ returned' = Record(df.got, DbName)
          /\ calls' = Count(df.got, DbName)
          /\ added' = RecordAdded(BatchIds(df.batch), DbName)
          /\ ev' = Event("add", DbName, ObjType[roots[1]], {}, 0, roots, df.batch,
                         r.raised, <<>>, <<>>, 0)
    /\ nops' = nops + 1
    /\ UNCHANGED <<streams, rev>>

\* CDEDatabase.write
DbWrite(roots) ==
    /\ nops < MaxOps
    /\ \E df \in {DictionaryForms(objs, max_ids, ledger[DbName], roots)} :
       \E r \in {WriteTypes(data[DbName], ledger[DbName], df.batch)} :
          /\ objs' = df.objs
          /\ max_ids' = df.max
          /\ data' = [data EXCEPT ![DbName] = r.data]
          /\ ledger' = [ledger EXCEPT ![DbName] = r.ledger]
          /\ returned' = Record(df.got, DbName)
          /\ calls' = Count(df.got, DbName)
          /\ added' = RecordAdded(WriteAdded(ledger[DbName], df.batch), DbName)
          /\ ev' = Event("write", DbName, ObjType[roots[1]], {}, 0, roots, df.batch,
                         r.raised, <<>>, <<>>, 0)
    /\ nops' = nops + 1
    /\ UNCHANGED <<streams, rev>>

\* CDEDatabase.update: self.write(records)
DbUpdate(roots) == DbWrite(roots)

\* CDEDatabase.delete
DbDelete(t, ids) ==
    /\ nops < MaxOps
    /\ \E r \in {CoderDelete(data[DbName], ledger[DbName], t, ids)} :
          /\ data' = [data EXCEPT ![DbName] = r.data]
          /\ ledger' = [ledger EXCEPT ![DbName] = r.ledger]
          /\ ev' = Event("delete", DbName, t, ids, 0, <<>>, <<>>, r.raised, <<>>, <<>>, 0)
    /\ nops' = nops + 1
    /\ UNCHANGED <<objs, max_ids, returned, added, calls>>
    /\ UNCHANGED <<streams, rev>>

\* The data files of database db after the files of the types in S have
\* been opened (and created when missing).
Open(db, S) ==
    [data EXCEPT ![db] = [t \in Types |-> IF t \in S THEN GetFile(@[t]) ELSE @[t]]]

ReadRaises(D, S) == \E t \in S : ~IsJSONObject(GetFile(D[t]))

\* CDEDatabase.record
DbRecord(t, id) ==
    /\ nops < MaxOps
    /\ \E D \in {data[DbName]} :
       \E r \in {CoderRecord(D[t], id)} :
       \E S \in {Opened(D, t, r.rows)} :
          /\ data' = Open(DbName, S)
          /\ ev' = Event("record", DbName, t, {}, id, <<>>, <<>>, ReadRaises(D, S),
                         r.rows, DbRecordTree(D, t, id), 0)
    /\ nops' = nops + 1
    /\ UNCHANGED <<objs, max_ids, ledger, returned, added, calls>>
    /\ UNCHANGED <<streams, rev>>

\* CDEDatabase.records, consumed to its end
DbRecords(t) ==
    /\ nops < MaxOps
    /\ \E D \in {data[DbName]} :
       \E r \in {CoderRecords(D[t])} :
       \E S \in {Opened(D, t, r.rows)} :
          /\ data' = Open(DbName, S)
          /\ ev' = Event("records", DbName, t, {}, 0, <<>>, <<>>, ReadRaises(D, S),
                         r.rows, DbRecordsTrees(D, t), 0)
    /\ nops' = nops + 1
    /\ UNCHANGED <<objs, max_ids, ledger, returned, added, calls>>
    /\ UNCHANGED <<streams, rev>>

\* The caller sets record._id (as the update test does) or a scalar field.
SetId(o, k) ==
    /\ nops < MaxOps
    /\ objs[o].id # k
    /\ objs' = [objs EXCEPT ![o].id = k]
    /\ ev' = Event("setid", DbName, ObjType[o], {}, k, <<o>>, <<>>, FALSE, <<>>, <<>>, 0)
    /\ nops' = nops + 1
    /\ UNCHANGED <<data, ledger, max_ids, returned, added, calls>>
    /\ UNCHANGED <<streams, rev>>

SetScalar(o, v) ==
    /\ nops < MaxOps
    /\ objs[o].scalar # v
    /\ objs' = [objs EXCEPT ![o].scalar = v]
    /\ ev' = Event("setscalar", DbName, ObjType[o], {}, v, <<o>>, <<>>, FALSE, <<>>, <<>>, 0)
    /\ nops' = nops + 1
    /\ UNCHANGED <<data, ledger, max_ids, returned, added, calls>>
    /\ UNCHANGED <<streams, rev>>

\* A new JSONCoder() over the same directories: PlainTextCoder.__init__.
NewCoder ==
    /\ nops < MaxOps
    /\ max_ids # <<>>
    /\ max_ids' = <<>>
    /\ calls' = [db \in DBs |-> [t \in Types |-> 0]]
    /\ ev' = Event("newcoder", DbName, "M", {}, 0, <<>>, <<>>, FALSE, <<>>, <<>>, 0)
    /\ nops' = nops + 1
    /\ UNCHANGED <<data, ledger, objs, returned, added>>
    /\ UNCHANGED <<streams, rev>>

Next ==
    \/ \E roots \in Roots : DbAdd(roots)
    \/ \E roots \in Roots : DbWrite(roots)
    \/ \E roots \in UpdateRoots : DbUpdate(roots)
    \/ \E t \in ReadTypes, ids \in DeleteIds : DbDelete(t, ids)
    \/ \E t \in ReadTypes, id \in CallerIds : DbRecord(t, id)
    \/ \E t \in ReadTypes : DbRecords(t)
    \/ \E o \in {2, 4}, k \in CallerIds : SetId(o, k)
    \/ \E o \in {1, 4} : SetScalar(o, 2)
    \/ NewCoder

Spec == Init /\ [][Next]_vars

\* The histories of a database that is filled through write alone.
NextWrite ==
    \/ \E roots \in Roots : DbWrite(roots)
    \/ \E t \in ReadTypes, ids \in DeleteIds : DbDelete(t, ids)
    \/ \E o \in {2, 4}, k \in CallerIds : SetId(o, k)
    \/ \E o \in {1, 4} : SetScalar(o, 2)
    \/ NewCoder

SpecWrite == Init /\ [][NextWrite]_vars

----------------------------------------------------------------------------
(* The calls on a JSONCoder itself.                                       *)

CoderTypes == {"M", "C"}

\* The flat rows of the batches the coder is called with.
FlatRow(i, v) == [NoRow EXCEPT !.id = i, !.scalar = v]
AddBatches ==
    {<<>>} \cup {<<FlatRow(i, 1)>> : i \in CallerIds}
           \cup {<<FlatRow(i, 1), FlatRow(j, 1)>> : i, j \in CallerIds}
UpdateBatches ==
    {<<FlatRow(i, 2)>> : i \in CallerIds} \cup {<<FlatRow(1, 2), FlatRow(2, 2)>>}

OneType(t, rows) == <<[typ |-> t, rows |-> rows]>>

\* JSONCoder.next_id
CNextId(db, t) ==
    /\ nops < MaxOps
    /\ \E M \in {NextIdCache(max_ids, ledger[db][t], t)} :
          /\ max_ids' = M
          /\ returned' = Record({<<t, M[t]>>}, db)
          /\ calls' = Count({<<t, M[t]>>}, db)
          /\ ev' = Event("next_id", db, t, {}, 0, <<>>, <<>>, FALSE, <<>>, <<>>, M[t])
    /\ nops' = nops + 1
    /\ UNCHANGED <<data, ledger, objs, added>>
    /\ UNCHANGED <<streams, rev>>

\* JSONCoder.add
CAdd(db, t, rows) ==
    /\ nops < MaxOps
    /\ \E r \in {CoderAdd(data[db], ledger[db], OneType(t, rows))} :
          /\ data' = [data EXCEPT ![db] = r.data]
          /\ ledger' = [ledger EXCEPT ![db] = r.ledger]
          /\ ev' = Event("add", db, t, {}, 0, <<>>, OneType(t, rows), r.raised,
                         <<>>, <<>>, 0)
    /\ added' = RecordAdded(BatchIds(OneType(t, rows)), db)
    /\ nops' = nops + 1
    /\ UNCHANGED <<objs, max_ids, returned, calls>>
    /\ UNCHANGED <<streams, rev>>

\* JSONCoder.update
CUpdate(db, t, rows) ==
    /\ nops < MaxOps
    /\ \E r \in {CoderUpdate(data[db], ledger[db], OneType(t, rows))} :
          /\ data' = [data EXCEPT ![db] = r.data]
          /\ ev' = Event("update", db, t, {}, 0, <<>>, OneType(t, rows), r.raised,
                         <<>>, <<>>, 0)
    /\ nops' = nops + 1
    /\ UNCHANGED <<ledger, objs, max_ids, returned, added, calls>>
    /\ UNCHANGED <<streams, rev>>

\* JSONCoder.delete
CDelete(db, t, ids) ==
    /\ nops < MaxOps
    /\ \E r \in {CoderDelete(data[db], ledger[db], t, ids)} :
          /\ data' = [data EXCEPT ![db] = r.data]
          /\ ledger' = [ledger EXCEPT ![db] = r.ledger]
          /\ ev' = Event("delete", db, t, ids, 0, <<>>, <<>>, r.raised, <<>>, <<>>, 0)
    /\ nops' = nops + 1
    /\ UNCHANGED <<objs, max_ids, returned, added, calls>>
    /\ UNCHANGED <<streams, rev>>

\* JSONCoder.record
CRecord(db, t, id) ==
    /\ nops < MaxOps
    /\ \E r \in {CoderRecord(data[db][t], id)} :
          /\ data' = Open(db, {t})
          /\ ev' = Event("record", db, t, {}, id, <<>>, <<>>, r.raised, r.rows, <<>>, 0)
    /\ nops' = nops + 1
    /\ UNCHANGED <<ledger, objs, max_ids, returned, added, calls>>
    /\ UNCHANGED <<streams, rev>>

\* JSONCoder.records
CRecords(db, t) ==
    /\ nops < MaxOps
    /\ \E r \in {CoderRecords(data[db][t])} :
          /\ data' = Open(db, {t})
          /\ ev' = Event("records", db, t, {}, 0, <<>>, <<>>, r.raised, r.rows, <<>>, 0)
    /\ nops' = nops + 1
    /\ UNCHANGED <<ledger, objs, max_ids, returned, added, calls>>
    /\ UNCHANGED <<streams, rev>>

\* JSONCoder.contains_id: ret is 1 for True and 0 for False
CContainsId(db, t, id) ==
    /\ nops < MaxOps
    /\ ev' = Event("contains_id", db, t, {}, id, <<>>, <<>>, FALSE, <<>>, <<>>,
                   IF ContainsId(ledger[db][t], id) THEN 1 ELSE 0)
    /\ nops' = nops + 1
    /\ UNCHANGED <<data, ledger, objs, max_ids, returned, added, calls>>
    /\ UNCHANGED <<streams, rev>>

InitCoder ==
    /\ InitStore
    /\ streams = NoStreams
    /\ objs = <<NewObj(3, FALSE, <<>>), NewObj(4, FALSE, <<>>), NewObj(5, FALSE, <<>>),
                NewObj(0, FALSE, <<>>), NewObj(0, FALSE, <<>>)>>
    /\ ev = Event("init", DbName, "M", {}, 0, <<>>, <<>>, FALSE, <<>>, <<>>, 0)

NextCoder ==
    \/ \E t \in CoderTypes : CNextId(DbName, t)
    \/ \E t \in CoderTypes, rows \in AddBatches : CAdd(DbName, t, rows)
    \/ \E t \in CoderTypes, rows \in UpdateBatches : CUpdate(DbName, t, rows)
    \/ \E t \in CoderTypes, ids \in DeleteIds : CDelete(DbName, t, ids)
    \/ \E t \in CoderTypes, id \in CallerIds : CRecord(DbName, t, id)
    \/ \E t \in CoderTypes : CRecords(DbName, t)
    \/ \E t \in CoderTypes, id \in CallerIds : CContainsId(DbName, t, id)
    \/ NewCoder

SpecCoder == InitCoder /\ [][NextCoder]_vars

----------------------------------------------------------------------------
(* The calls on Results instances.                                        *)

RevEvent(op, i, new, pred, out) ==
    [op |-> op, s |-> i, new |-> new, pred |-> pred, out |-> out, raised |-> FALSE,
     pre |-> streams]

StoreUnchanged ==
    /\ nops < MaxOps
    /\ nops' = nops + 1
    /\ UNCHANGED <<data, ledger, max_ids, objs, ev, returned, added, calls>>

\* Results.filtered
RFiltered(i, p) ==
    /\ streams[i].kind # "none"
    /\ HasSlot(streams)
    /\ \E j \in {NewSlot(streams)} :
          /\ streams' = [streams EXCEPT ![j] =
                            [NoStream EXCEPT !.kind = "filter", !.parent = i, !.pred = p]]
          /\ rev' = RevEvent("filtered", i, j, p, <<>>)
    /\ StoreUnchanged

\* Results.sorted, key = element.value[0]
RSorted(i) ==
    /\ streams[i].kind # "none"
    /\ HasSlot(streams)
    /\ \E r \in {All(streams, i)} :
       \E j \in {NewSlot(streams)} :
          /\ streams' = [r.R EXCEPT ![j] = Source("list", SortedByKey(r.out))]
          /\ rev' = RevEvent("sorted", i, j, "gt", r.out)
    /\ StoreUnchanged

\* Results.all
RAll(i) ==
    /\ streams[i].kind # "none"
    /\ \E r \in {All(streams, i)} :
          /\ streams' = r.R
          /\ rev' = RevEvent("all", i, 0, "gt", r.out)
    /\ StoreUnchanged

\* One step of a loop over a Results whose iterable is a generator.
RNext(i) ==
    /\ streams[i].kind \in {"gen", "filter"}
    /\ \E r \in {Pull(streams, i)} :
          /\ streams' = r.R
          /\ rev' = RevEvent("next", i, 0, "gt", r.out)
    /\ StoreUnchanged

\* for element in results: ... (Results.__iter__)
RLoop(i) ==
    /\ streams[i].kind # "none"
    /\ \E r \in {Loop(streams, i)} :
          /\ streams' = r.R
          /\ rev' = [RevEvent("loop", i, 0, "gt", r.out) EXCEPT !.raised = r.raised]
    /\ StoreUnchanged

\* The iterables a Results is constructed around.
NoRepeat(s) == \A i, j \in 1..Len(s) : i # j => s[i] # s[j]
SourceItems ==
    {s \in UNION {[1..n -> Elems] : n \in 0..Cardinality(Elems)} : NoRepeat(s)}

InitResults ==
    /\ InitStore
    /\ objs = <<NewObj(3, FALSE, <<>>), NewObj(4, FALSE, <<>>), NewObj(5, FALSE, <<>>),
                NewObj(0, FALSE, <<>>), NewObj(0, FALSE, <<>>)>>
    /\ ev = Event("init", DbName, "M", {}, 0, <<>>, <<>>, FALSE, <<>>, <<>>, 0)
    /\ \E k \in {"gen", "list"}, items \in SourceItems :
          streams = [NoStreams EXCEPT ![1] = Source(k, items)]

NextResults ==
    \/ \E i \in 1..MaxStreams, p \in Preds : RFiltered(i, p)
    \/ \E i \in 1..MaxStreams : RSorted(i)
    \/ \E i \in 1..MaxStreams : RLoop(i)
    \/ \E i \in 1..MaxStreams : RAll(i)
    \/ \E i \in 1..MaxStreams : RNext(i)

SpecResults == InitResults /\ [][NextResults]_vars

----------------------------------------------------------------------------
(* update and delete on a data file in which a record line was damaged    *)
(* from outside (a line that json.loads rejects).                          *)

\* The entries of the files: a record with identifier 1 or 2, or, for 0, a
\* damaged line.
EntryTok(x) == IF x = 0 THEN Tok("junk") ELSE RecTok(FlatRow(x, 1))

RECURSIVE EntryLines(_)
EntryLines(es) ==
    IF Len(es) = 1 THEN <<EntryTok(es[1]), Tok("nl")>>
    ELSE <<EntryTok(Head(es)), Tok(","), Tok("nl")>> \o EntryLines(Tail(es))

FileOf(es) == <<Tok("{"), Tok("nl")>> \o EntryLines(es) \o <<Tok("}")>>

Entries ==
    {es \in UNION {[1..n -> {0} \cup CallerIds] : n \in 1..Cardinality(CallerIds)} :
        \A i, j \in 1..Len(es) : (i # j /\ es[i] # 0) => es[i] # es[j]}

RECURSIVE EntryIds(_)
EntryIds(es) ==
    IF es = <<>> THEN <<>>
    ELSE (IF Head(es) # 0 THEN <<Head(es)>> ELSE <<>>) \o EntryIds(Tail(es))

InitDamaged ==
    /\ \E es \in Entries :
          /\ data = [db \in DBs |-> [t \in Types |->
                        IF db = DbName /\ t = "M" THEN FileOf(es) ELSE NoFile]]
          /\ ledger = [db \in DBs |-> [t \in Types |->
                        IF db = DbName /\ t = "M"
                        THEN [exists |-> TRUE, lines |-> EntryIds(es)] ELSE NoLedger]]
          /\ added = [db \in DBs |-> [t \in Types |->
                        IF db = DbName /\ t = "M" THEN SeqRange(EntryIds(es)) ELSE {}]]
    /\ max_ids = <<>>
    /\ returned = [db \in DBs |-> [t \in Types |-> {}]]
    /\ calls = [db \in DBs |-> [t \in Types |-> 0]]
    /\ nops = 0
    /\ rev = NoRev
    /\ streams = NoStreams
    /\ objs = <<NewObj(3, FALSE, <<>>), NewObj(4, FALSE, <<>>), NewObj(5, FALSE, <<>>),
                NewObj(0, FALSE, <<>>), NewObj(0, FALSE, <<>>)>>
    /\ ev = Event("init", DbName, "M", {}, 0, <<>>, <<>>, FALSE, <<>>, <<>>, 0)

NextDamaged ==
    \/ \E rows \in UpdateBatches : CUpdate(DbName, "M", rows)
    \/ \E ids \in DeleteIds : CDelete(DbName, "M", ids)
    \/ \E rows \in AddBatches : CAdd(DbName, "M", rows)

SpecDamaged == InitDamaged /\ [][NextDamaged]_vars

----------------------------------------------------------------------------
(* One JSONCoder instance that serves the two databases: its calls take   *)
(* the database name as an argument.                                       *)

NextShared ==
    \/ \E db \in DBs : CNextId(db, "M")
    \/ \E db \in DBs, rows \in AddBatches : CAdd(db, "M", rows)
    \/ \E db \in DBs, id \in CallerIds : CContainsId(db, "M", id)

SpecShared == InitCoder /\ [][NextShared]_vars

----------------------------------------------------------------------------
(* Properties.                                                            *)

\* The instances reachable from a list of records.
RECURSIVE Reach(_, _)
Reach(H, os) ==
    IF os = <<>> THEN {}
    ELSE {Head(os)} \cup Reach(H, Children(H, Head(os))) \cup Reach(H, Tail(os))

NoIds(H, os) == \A o \in Reach(H, os) : H[o].id = 0

\* A database that holds no rows and no ledger lines.
FreshDb(D, L) == \A t \in Types : FileRows(D[t]) = <<>> /\ L[t].lines = <<>>

PreRows(t) == FileRows(ev.preData[ev.db][t])
NowRows(t) == FileRows(data[ev.db][t])

Occurrences(s, x) == Cardinality({i \in 1..Len(s) : s[i] = x})
SameBag(s1, s2) ==
    /\ Len(s1) = Len(s2)
    /\ \A i \in 1..Len(s1) : Occurrences(s1, s1[i]) = Occurrences(s2, s1[i])

RECURSIVE KeepRows(_, _)
KeepRows(rows, ids) ==
    IF rows = <<>> THEN <<>>
    ELSE IF Head(rows).id \in ids THEN KeepRows(Tail(rows), ids)
    ELSE <<Head(rows)>> \o KeepRows(Tail(rows), ids)

\* C1: round trip.  After Database.add of record trees without identifiers
\* to a database that holds nothing, Database.record(type(r), r.id) gives
\* for every added r a record equal to r field for field, nested records
\* included.
C1_RoundTrip ==
    (ev.op = "add" /\ ev.roots # <<>>
        /\ FreshDb(ev.preData[DbName], ev.preLedger[DbName])
        /\ NoIds(ev.preObjs, ev.roots))
    => /\ ~ev.raised
       /\ \A i \in 1..Len(ev.roots) :
            LET o == ev.roots[i]
            IN /\ objs[o].id # 0
               /\ DbRecordTree(data[DbName], ObjType[o], objs[o].id)
                    = <<ObjTree(objs, o)>>

\* A tree with a nested record that has a nested record itself, and a list
\* of two nested records, has been added and read back.
C1_Witness ==
    /\ ev.op = "add" /\ ev.roots = <<1, 2>>
    /\ FreshDb(ev.preData[DbName], ev.preLedger[DbName])
    /\ NoIds(ev.preObjs, ev.roots)
    /\ objs[1].single = 3 /\ objs[3].single = 5 /\ objs[1].list = <<3, 4>>
    /\ DbRecordTree(data[DbName], "M", objs[1].id) = <<ObjTree(objs, 1)>>

\* The N top-level records of an add, each with one nested sub-record, the
\* sub-records being N different instances.
TopLevelWithSubs(H, roots) ==
    /\ roots # <<>>
    /\ \A i \in 1..Len(roots) : ObjType[roots[i]] = "M" /\ H[roots[i]].single # 0
    /\ \A i, j \in 1..Len(roots) :
          i # j => roots[i] # roots[j] /\ H[roots[i]].single # H[roots[j]].single

\* C2: after Database.add of N top-level records, each holding one nested
\* sub-record, to a database that holds nothing, records(T) returns exactly
\* those N records as a multiset, and the N sub-records carry pairwise
\* distinct identifiers, each with a row in the sub-type's data file.
C2_AddStoresAll ==
    (ev.op = "add"
        /\ FreshDb(ev.preData[DbName], ev.preLedger[DbName])
        /\ NoIds(ev.preObjs, ev.roots)
        /\ TopLevelWithSubs(ev.preObjs, ev.roots))
    => /\ ~ev.raised
       /\ SameBag(DbRecordsTrees(data[DbName], "M"),
                  [i \in 1..Len(ev.roots) |-> ObjTree(objs, ev.roots[i])])
       /\ \A i, j \in 1..Len(ev.roots) :
            i # j => objs[objs[ev.roots[i]].single].id # objs[objs[ev.roots[j]].single].id
       /\ \A i \in 1..Len(ev.roots) :
            objs[objs[ev.roots[i]].single].id \in RowIds(FileRows(data[DbName]["C"]))

\* Two top-level records with two different sub-records have been added.
C2_Witness ==
    /\ ev.op = "add" /\ Len(ev.roots) = 2
    /\ FreshDb(ev.preData[DbName], ev.preLedger[DbName])
    /\ NoIds(ev.preObjs, ev.roots)
    /\ TopLevelWithSubs(ev.preObjs, ev.roots)
    /\ Len(DbRecordsTrees(data[DbName], "M")) = 2

\* C3: delete isolation.  After Database.delete(type, D) with D a subset of
\* the stored identifiers, records(type) returns exactly the stored records
\* whose identifier is not in D, each unchanged, and record(type, d) is
\* absent for every d in D.
C3_DeleteIsolation ==
    (ev.op = "delete" /\ ev.ids \subseteq RowIds(PreRows(ev.typ)))
    => LET D == data[DbName]
           kept == KeepRows(PreRows(ev.typ), ev.ids)
       IN /\ ~ev.raised
          /\ ~CoderRecords(D[ev.typ]).raised
          /\ CoderRecords(D[ev.typ]).rows = kept
          /\ DbRecordsTrees(D, ev.typ)
               = [i \in 1..Len(kept) |->
                    CreateRecord(ev.preData[DbName], ev.typ, <<kept[i]>>)[1]]
          /\ \A d \in ev.ids :
               /\ CoderRecord(D[ev.typ], d) = ReadResult(<<>>, FALSE)
               /\ DbRecordTree(D, ev.typ, d) = <<>>

\* One of two stored records has been deleted.
C3_Witness ==
    /\ ev.op = "delete" /\ ev.ids = {1} /\ ~ev.raised
    /\ RowIds(PreRows(ev.typ)) = {1, 2}
    /\ RowIds(NowRows(ev.typ)) = {2}

\* A Database.update of one record that carries the identifier of a stored
\* record X.
UpdatesStored ==
    /\ ev.op = "write" /\ Len(ev.roots) = 1
    /\ ev.preObjs[ev.roots[1]].id \in RowIds(PreRows(ObjType[ev.roots[1]]))

\* The own row of a record in the batch of the call.
OwnRow(o) == DictionaryForm(objs, o)[Len(DictionaryForm(objs, o))].row

\* The <<type, id>> pairs a row refers to, directly or through the rows it
\* refers to, in the files D.
RECURSIVE Refs(_, _, _)
Refs(D, t, row) ==
    LET direct == (IF row.single # 0 THEN {<<SingleType(t), row.single>>} ELSE {})
                  \cup {<<ListType(t), row.list[k]>> : k \in 1..Len(row.list)}
    IN direct
       \cup UNION {LET sub == FirstWithId(FileRows(D[p[1]]), p[2])
                   IN IF sub = <<>> THEN {} ELSE Refs(D, p[1], sub[1]) : p \in direct}

\* C4 as stated: after the update, X's row holds the new field values,
\* every other stored row of that type reconstructs to exactly the same
\* record as before, and records(type) returns as many records as before.
C4_UpdateIsolation ==
    UpdatesStored
    => LET o == ev.roots[1]
           t == ObjType[o]
           pre == PreRows(t)
       IN /\ ~ev.raised
          /\ FirstWithId(NowRows(t), objs[o].id) = <<OwnRow(o)>>
          /\ \A i \in 1..Len(pre) :
                pre[i].id # objs[o].id
                => CreateRecord(data[DbName], t, <<pre[i]>>)
                     = CreateRecord(ev.preData[DbName], t, <<pre[i]>>)
          /\ Len(DbRecordsTrees(data[DbName], t)) = Len(pre)

\* C4, amended: after the update, X's row holds the new field values, every
\* other stored row of that type is the same flat row at the same position,
\* records(type) returns as many records as before, and another record
\* reconstructs to the same record as before unless a nested record it
\* refers to (directly or through nested records) is written by the update.
C4_UpdateIsolationRows ==
    UpdatesStored
    => LET o == ev.roots[1]
           t == ObjType[o]
           pre == PreRows(t)
           now == NowRows(t)
       IN /\ ~ev.raised
          /\ FirstWithId(now, objs[o].id) = <<OwnRow(o)>>
          /\ Len(now) = Len(pre)
          /\ Len(DbRecordsTrees(data[DbName], t)) = Len(pre)
          /\ \A i \in 1..Len(pre) :
                pre[i].id # objs[o].id
                => /\ now[i] = pre[i]
                   /\ Refs(ev.preData[DbName], t, pre[i]) \cap BatchIds(ev.batch) = {}
                      => CreateRecord(data[DbName], t, <<pre[i]>>)
                           = CreateRecord(ev.preData[DbName], t, <<pre[i]>>)

\* A stored record has been updated with a new scalar value while another
\* record of its type is stored.
C4_Witness ==
    /\ UpdatesStored /\ ~ev.raised
    /\ Len(PreRows("M")) = 2 /\ ev.roots = <<1>>
    /\ FirstWithId(PreRows("M"), objs[1].id)[1].scalar = 1
    /\ FirstWithId(NowRows("M"), objs[1].id)[1].scalar = 2

\* The layout of a data file: the opening line, then either one empty line
\* or record lines of which all but the last end with a comma, then "}".
SeparatorsOk(f) ==
    LET lines == SplitLines(f)
        n == Len(lines)
    IN /\ n >= 3
       /\ lines[1] = <<Tok("{"), Tok("nl")>>
       /\ lines[n] = <<Tok("}")>>
       /\ \/ n = 3 /\ lines[2] = <<Tok("nl")>>
          \/ /\ \A i \in 2..(n - 2) :
                  /\ Len(lines[i]) = 3
                  /\ lines[i][1].t = "rec" /\ lines[i][2].t = "," /\ lines[i][3].t = "nl"
             /\ Len(lines[n - 1]) = 2
             /\ lines[n - 1][1].t = "rec" /\ lines[n - 1][2].t = "nl"

\* C5: separator invariant.  After any sequence of add, update and delete
\* calls on the coder every data file is an opening line, record lines of
\* which every one but the last ends with a comma (or one empty line when
\* there is no record), and a closing brace, and parses as one JSON object.
C5_SeparatorInvariant ==
    \A db \in DBs, t \in Types :
        data[db][t] # NoFile => SeparatorsOk(data[db][t]) /\ IsJSONObject(data[db][t])

\* Two records have been added to a file that a delete had emptied.
C5_Witness ==
    /\ ev.op = "add" /\ ~ev.raised
    /\ ev.preData[ev.db][ev.typ] = InitialFile
    /\ added[ev.db][ev.typ] # {}
    /\ ev.preLedger[ev.db][ev.typ] = [exists |-> TRUE, lines |-> <<>>]
    /\ Len(NowRows(ev.typ)) = 2

\* C6: the next_id calls on one coder instance for a type without a ledger
\* file return 1, 2, ..., N in that order: the k-th call returns k.
C6_NextIdCountsUp ==
    (ev.op = "next_id" /\ ~ledger[ev.db][ev.typ].exists)
    => /\ ev.ret = calls[ev.db][ev.typ]
       /\ \A k \in 1..ev.ret : k \in returned[ev.db][ev.typ]

\* The third call for a type without a ledger file.
C6_Witness ==
    /\ ev.op = "next_id" /\ ~ledger[ev.db][ev.typ].exists
    /\ calls[ev.db][ev.typ] = 3 /\ ev.ret = 3

\* C7: next_id(type) never returns a value it has returned before for that
\* type in that database, whatever coder instance the calls are made on.
C7_NextIdNeverRepeats ==
    ev.op = "next_id" => ev.ret \notin ev.preReturned[ev.db][ev.typ]

\* C8 as stated: the ledger of a type contains every identifier ever added
\* for that type, those of deleted rows included.
C8_LedgerKeepsEverything ==
    \A db \in DBs, t \in Types : added[db][t] \subseteq SeqRange(ledger[db][t].lines)

\* C8, amended: add appends the identifiers of its rows to the ledger and
\* keeps every line that was there; delete removes exactly the lines of the
\* identifiers it is given; no other call changes the ledger.  So the ledger
\* holds the identifiers added and not deleted since.
C8_LedgerTracksStored ==
    LET now == ledger[ev.db][ev.typ].lines
        pre == ev.preLedger[ev.db][ev.typ].lines
    IN /\ ev.op = "add" => now = pre \o RowIdSeq(ev.batch[1].rows)
       /\ (ev.op = "delete" /\ ev.preLedger[ev.db][ev.typ].exists)
            => now = DropIds(pre, ev.ids)
       /\ ev.op \notin {"add", "delete"} => ledger = ev.preLedger
       /\ \A db \in DBs, t \in Types :
            <<db, t>> # <<ev.db, ev.typ>> => ledger[db][t] = ev.preLedger[db][t]

\* A delete has removed one of two ledger lines.
C8_Witness ==
    /\ ev.op = "delete" /\ ev.ids = {1}
    /\ ev.preLedger[ev.db][ev.typ].lines = <<1, 2>>
    /\ ledger[ev.db][ev.typ].lines = <<2>>

\* The identifiers without a row in the data file of type t.
NotStored(D, t) == (CallerIds \cup {3}) \ RowIds(FileRows(D[t]))

\* C9: a point lookup miss is not an error.  In every state, coder.record
\* of an identifier without a stored row returns None without raising, and
\* Database.record returns None.
C9_LookupMissIsAbsent ==
    /\ \A t \in Types : \A id \in NotStored(data[DbName], t) :
          /\ CoderRecord(data[DbName][t], id) = ReadResult(<<>>, FALSE)
          /\ DbRecordTree(data[DbName], t, id) = <<>>
    /\ (ev.op = "record" /\ ev.id \in NotStored(ev.preData[DbName], ev.typ))
          => ~ev.raised /\ ev.rows = <<>> /\ ev.trees = <<>>

\* Database.record has missed on a type whose records were all deleted.
C9_Witness ==
    /\ ev.op = "record" /\ ~ev.raised /\ ev.trees = <<>>
    /\ ev.preData[DbName][ev.typ] = InitialFile
    /\ added[DbName][ev.typ] # {}

\* C10: coder.update ignores the rows of the batch whose identifier has no
\* record line: the call completes without error, inserts no row and leaves
\* the rows of the data file as they were, also when the file holds no
\* record.
C10_UpdateIgnoresMissing ==
    (ev.op = "update"
        /\ RowIds(ev.batch[1].rows) \cap RowIds(PreRows(ev.typ)) = {})
    => ~ev.raised /\ NowRows(ev.typ) = PreRows(ev.typ)

RECURSIVE FirstOccurrences(_, _)
FirstOccurrences(rows, seen) ==
    IF rows = <<>> THEN <<>>
    ELSE IF Head(rows).id \in seen THEN FirstOccurrences(Tail(rows), seen)
    ELSE <<Head(rows)>> \o FirstOccurrences(Tail(rows), seen \cup {Head(rows).id})

\* The rows of a list whose identifier is (inLedger) or is not in the ledger.
RECURSIVE RowsByLedger(_, _, _)
RowsByLedger(rows, l, inLedger) ==
    IF rows = <<>> THEN <<>>
    ELSE (IF (Head(rows).id \in SeqRange(l.lines)) = inLedger THEN <<Head(rows)>> ELSE <<>>)
         \o RowsByLedger(Tail(rows), l, inLedger)

\* The stored rows with, for every identifier of upd, the first row that
\* carries it replaced by the row of upd.
Replaced(pre, upd) ==
    [i \in 1..Len(pre) |->
        IF /\ pre[i].id \in RowIds(upd)
           /\ \A j \in 1..(i - 1) : pre[j].id # pre[i].id
        THEN FirstWithId(upd, pre[i].id)[1] ELSE pre[i]]

\* C12: within one Database.write, for every type the identifiers that
\* contains_id does not know are handed to add, exactly once each and with
\* the content of their first occurrence (one ledger line and one appended
\* row each), and the identifiers it knows are handed to update, with the
\* content of their first occurrence (no ledger line, no appended row, the
\* first stored row of that identifier replaced).
C12_WriteClassification ==
    (ev.op = "write" /\ ~ev.raised)
    => \A i \in 1..Len(ev.batch) :
         LET t == ev.batch[i].typ
             first == FirstOccurrences(ev.batch[i].rows, {})
             toAdd == RowsByLedger(first, ev.preLedger[DbName][t], FALSE)
             toUpd == RowsByLedger(first, ev.preLedger[DbName][t], TRUE)
         IN /\ ledger[DbName][t].lines
                 = ev.preLedger[DbName][t].lines \o RowIdSeq(toAdd)
            /\ NowRows(t) = Replaced(PreRows(t), toUpd) \o toAdd

\* A write in which a record referenced twice is stored already, and where
\* one row of its type is added and one updated.
C12_Witness ==
    /\ ev.op = "write" /\ ~ev.raised
    /\ \E i \in 1..Len(ev.batch) :
         LET rows == ev.batch[i].rows
             l == ev.preLedger[DbName][ev.batch[i].typ]
         IN /\ Len(rows) > Cardinality(RowIds(rows))
            /\ RowsByLedger(rows, l, FALSE) # <<>>
            /\ \E j, k \in 1..Len(rows) :
                 j < k /\ rows[j].id = rows[k].id /\ ContainsId(l, rows[j].id)

\* No two record instances of one type in the trees carry the same
\* identifier.
DistinctIds(H, roots) ==
    \A a, b \in Reach(H, roots) :
        (a # b /\ ObjType[a] = ObjType[b]) => H[a].id # H[b].id

RowsWithId(rows, id) == Cardinality({i \in 1..Len(rows) : rows[i].id = id})

\* C13: Database.update is an upsert.  A record whose identifier is not
\* stored (it has none yet, or its row was deleted) is inserted, a record
\* whose identifier is stored has its row replaced and no second row added;
\* in both cases record(type, id) afterwards returns the record.
C13_UpdateIsUpsert ==
    (ev.op = "write" /\ DistinctIds(objs, ev.roots))
    => /\ ~ev.raised
       /\ \A i \in 1..Len(ev.roots) :
            LET o == ev.roots[i]
                t == ObjType[o]
                was == RowsWithId(PreRows(t), ev.preObjs[o].id)
            IN /\ DbRecordTree(data[DbName], t, objs[o].id) = <<ObjTree(objs, o)>>
               /\ FirstWithId(NowRows(t), objs[o].id) = <<OwnRow(o)>>
               /\ (ev.preObjs[o].id # 0 /\ was > 0)
                    => RowsWithId(NowRows(t), objs[o].id) = was

\* An update has inserted a record whose row had been deleted.
C13_Witness ==
    /\ ev.op = "write" /\ ~ev.raised /\ ev.roots = <<1>>
    /\ DistinctIds(objs, ev.roots)
    /\ ev.preObjs[1].id # 0
    /\ ev.preObjs[1].id \in added[DbName]["M"]
    /\ RowsWithId(PreRows("M"), objs[1].id) = 0
    /\ RowsWithId(NowRows("M"), objs[1].id) = 1

\* The identifiers of a list that have a row among the rows given.
RECURSIVE Resolved(_, _)
Resolved(ids, stored) ==
    IF ids = <<>> THEN <<>>
    ELSE (IF Head(ids) \in stored THEN <<Head(ids)>> ELSE <<>>)
         \o Resolved(Tail(ids), stored)

StoredIds(D, t) == IF t = NoType THEN {} ELSE RowIds(FileRows(D[t]))

\* C14: dangling references are tolerated.  Reconstructing a stored row
\* does not raise; a single nested field whose target has no row is None,
\* and a nested list holds exactly the elements whose target has a row, in
\* the order of the stored list.
C14_DanglingTolerated ==
    (ev.op \in {"record", "records"})
    => /\ ~ev.raised
       /\ Len(ev.trees) = Len(ev.rows)
       /\ \A i \in 1..Len(ev.rows) :
            LET row == ev.rows[i]
                tree == ev.trees[i]
                D == ev.preData[DbName]
            IN /\ (row.single # 0 /\ row.single \notin StoredIds(D, SingleType(ev.typ)))
                    => tree.single = <<>>
               /\ (row.single # 0 /\ row.single \in StoredIds(D, SingleType(ev.typ)))
                    => Len(tree.single) = 1 /\ tree.single[1].id = row.single
               /\ RowIdSeq(tree.list) = Resolved(row.list, StoredIds(D, ListType(ev.typ)))

\* A record has been read whose list refers to a deleted row first and to a
\* stored row second, and whose single nested record was deleted.
C14_Witness ==
    /\ ev.op = "record" /\ ~ev.raised /\ Len(ev.rows) = 1
    /\ ev.rows[1].list = <<1, 2>> /\ ev.rows[1].single = 1
    /\ StoredIds(ev.preData[DbName], "C") = {2}
    /\ ev.trees[1].single = <<>>
    /\ RowIdSeq(ev.trees[1].list) = <<2>>

\* The elements of a sequence that satisfy a filter function, in order.
RECURSIVE Matching(_, _)
Matching(s, p) ==
    IF s = <<>> THEN <<>>
    ELSE (IF Holds(p, Head(s)) THEN <<Head(s)>> ELSE <<>>) \o Matching(Tail(s), p)

RestOf(s, pos) == SubSeq(s, pos + 1, Len(s))

\* What the iterable of instance i has still to yield, from the positions
\* of the generators and the lists they read.
RECURSIVE Remaining(_, _)
Remaining(R, i) ==
    IF R[i].kind = "gen" THEN RestOf(R[i].items, R[i].pos)
    ELSE IF R[i].kind = "list" THEN R[i].items
    ELSE IF R[R[i].parent].kind = "list"
    THEN Matching(RestOf(R[R[i].parent].items, R[i].pos), R[i].pred)
    ELSE Matching(Remaining(R, R[i].parent), R[i].pred)

\* What the source of a filtered instance has still to yield to it.
SourceRemaining(R, i) ==
    IF R[R[i].parent].kind = "list"
    THEN RestOf(R[R[i].parent].items, R[i].pos)
    ELSE Remaining(R, R[i].parent)

\* s = skipped \o tail, with skipped free of elements that satisfy p.
SkipsTo(s, tail, p) ==
    /\ Len(tail) <= Len(s)
    /\ RestOf(s, Len(s) - Len(tail)) = tail
    /\ Matching(SubSeq(s, 1, Len(s) - Len(tail)), p) = <<>>

\* C15: filtered(predicate) is lazy and exact.  The call itself changes no
\* instance and consumes nothing; one step of the filtered stream takes
\* from its source the elements up to the first that satisfies the
\* predicate and no more; all() on it returns exactly the source's
\* remaining elements that satisfy the predicate, in source order, each
\* once; no position ever passes the end of its source.
C15_FilteredLazyExact ==
    /\ rev.op = "filtered"
         => /\ \A j \in 1..MaxStreams : j # rev.new => streams[j] = rev.pre[j]
            /\ streams[rev.new].kind = "filter" /\ streams[rev.new].pos = 0
            /\ Remaining(streams, rev.new) = Matching(Remaining(rev.pre, rev.s), rev.pred)
    /\ (rev.op = "next" /\ rev.pre[rev.s].kind = "filter")
         => LET before == SourceRemaining(rev.pre, rev.s)
                after == SourceRemaining(streams, rev.s)
                p == rev.pre[rev.s].pred
            IN IF rev.out = <<>>
               THEN after = <<>> /\ Matching(before, p) = <<>>
               ELSE Holds(p, rev.out[1]) /\ SkipsTo(before, rev.out \o after, p)
    /\ (rev.op = "all" /\ rev.pre[rev.s].kind = "filter")
         => /\ rev.out = Matching(SourceRemaining(rev.pre, rev.s), rev.pre[rev.s].pred)
            /\ NoRepeat(rev.out)
            /\ SourceRemaining(streams, rev.s) = <<>>
    /\ \A j \in 1..MaxStreams :
         /\ streams[j].kind = "gen" => streams[j].pos <= Len(streams[j].items)
         /\ (streams[j].kind = "filter" /\ streams[streams[j].parent].kind = "list")
               => streams[j].pos <= Len(streams[streams[j].parent].items)

\* The test: val > 160 over a(200), b(150), c(600) has yielded a and c.
C15_Witness ==
    /\ rev.op = "all" /\ rev.pre[rev.s].kind = "filter"
    /\ rev.pre[rev.s].pred = "gt" /\ rev.pre[rev.s].parent = 1
    /\ streams[1].kind = "gen" /\ streams[1].items = <<"a", "b", "c">>
    /\ rev.out = <<"a", "c">>

NonDecreasing(s) == \A i \in 1..(Len(s) - 1) : Val(s[i]) <= Val(s[i + 1])

\* C16: sorted(key) reads every remaining element of the source during the
\* call (a generator is exhausted by it) and returns a stream that yields a
\* permutation of those elements in non-decreasing key order.
C16_SortedPermutation ==
    rev.op = "sorted"
    => /\ rev.out = Remaining(rev.pre, rev.s)
       /\ rev.pre[rev.s].kind # "list" => Remaining(streams, rev.s) = <<>>
       /\ streams[rev.new].kind = "list"
       /\ SameBag(Remaining(streams, rev.new), rev.out)
       /\ NonDecreasing(Remaining(streams, rev.new))
       /\ All(streams, rev.new).out = Remaining(streams, rev.new)

\* The test: a(200), b(150), c(600) sorted by value gives b, a, c.
C16_Witness ==
    /\ rev.op = "sorted" /\ rev.s = 1
    /\ rev.pre[1].kind = "gen" /\ rev.pre[1].pos = 0
    /\ rev.pre[1].items = <<"a", "b", "c">>
    /\ streams[rev.new].items = <<"b", "a", "c">>

\* The instances around a generator and those that sorted returned (the
\* first instance is the one constructed around the source).
FromProducer(R, i) == R[i].kind \in {"gen", "filter"} \/ (R[i].kind = "list" /\ i # 1)

RowsOf(batch, t) ==
    IF \E i \in 1..Len(batch) : batch[i].typ = t
    THEN batch[CHOOSE i \in 1..Len(batch) : batch[i].typ = t].rows
    ELSE <<>>

BatchRowCount(batch) ==
    Cardinality({<<i, k>> \in (1..Len(batch)) \X (1..5) : k <= Len(batch[i].rows)})

Flattens == ev.op \in {"add", "write"}

\* C18: flattening one record yields exactly one row per distinct record
\* instance reachable from it (itself included); an instance referenced from
\* two places of the tree contributes one row.
C18_OneRowPerInstance ==
    (Flattens /\ Len(ev.roots) = 1)
    => BatchRowCount(ev.batch) = Cardinality(Reach(objs, ev.roots))

\* The rows of the batch that carry the identifier of instance o.
RowsOfInstance(o) ==
    LET rows == RowsOf(ev.batch, ObjType[o])
    IN {rows[k] : k \in {j \in 1..Len(rows) : rows[j].id = objs[o].id}}

\* C19: identifier stability.  A flattening call leaves the identifier of
\* every record that has one as it is; it calls next_id exactly once for
\* every reachable instance without an identifier and for no other (so at
\* most once per instance over any sequence of calls); and every row refers
\* to a nested instance by that instance's one identifier, at every
\* occurrence.
C19_IdentifierStability ==
    Flattens
    => /\ \A o \in Obj : ev.preObjs[o].id # 0 => objs[o].id = ev.preObjs[o].id
       /\ \A o \in Obj \ Reach(objs, ev.roots) : objs[o] = ev.preObjs[o]
       /\ \A o \in Reach(objs, ev.roots) : objs[o].id # 0
       /\ \A t \in Types :
            calls[DbName][t] - ev.preCalls[DbName][t]
              = Cardinality({o \in Reach(objs, ev.roots) :
                               ObjType[o] = t /\ ev.preObjs[o].id = 0})
       /\ DistinctIds(objs, ev.roots)
            => \A o \in Reach(objs, ev.roots) :
                 /\ RowsOfInstance(o) # {}
                 /\ \A r \in RowsOfInstance(o) :
                      /\ r.single = (IF objs[o].single # 0 THEN objs[objs[o].single].id ELSE 0)
                      /\ r.list = [k \in 1..Len(objs[o].list) |-> objs[objs[o].list[k]].id]

\* A tree in which one nested instance occurs twice and another had its
\* identifier set by the caller has been flattened.
C19_Witness ==
    /\ ev.op = "add" /\ ev.roots = <<1>>
    /\ objs[1].single = 3 /\ objs[1].list = <<3, 4>>
    /\ ev.preObjs[3].id = 0 /\ ev.preObjs[4].id = 2 /\ objs[4].id = 2
    /\ objs[3].id = 1
    /\ DistinctIds(objs, ev.roots)

\* C20 as stated: the row of a record whose nested list is empty has no
\* entry for that field, as for a field that was never set.
C20_EmptyListAbsent ==
    (Flattens /\ DistinctIds(objs, ev.roots))
    => \A o \in Reach(objs, ev.roots) :
         (objs[o].haslist /\ objs[o].list = <<>>)
         => \A r \in RowsOfInstance(o) : r.listk = "absent"

\* C20, amended: the row of a record whose nested list is empty has an
\* entry with the value None (null) for that field, never an empty list;
\* the key is absent only when the field was never set; reconstruction
\* turns both into a record without that list.
C20_EmptyListNull ==
    (Flattens /\ DistinctIds(objs, ev.roots))
    => \A o \in Reach(objs, ev.roots) : \A r \in RowsOfInstance(o) :
         /\ (objs[o].haslist /\ objs[o].list = <<>>) <=> r.listk = "null"
         /\ ~objs[o].haslist <=> r.listk = "absent"
         /\ r.listk # "ids" => r.list = <<>>
         /\ r.listk = "ids" => r.list # <<>>
         /\ r.listk # "ids" => CreateRecord(data[DbName], ObjType[o], <<r>>)[1].list = <<>>

\* A record whose nested list is empty has been added and its row stored.
C20_Witness ==
    /\ ev.op = "add" /\ ~ev.raised /\ ev.roots = <<1>>
    /\ objs[1].haslist /\ objs[1].list = <<>>
    /\ FirstWithId(NowRows("M"), objs[1].id) # <<>>
    /\ FirstWithId(NowRows("M"), objs[1].id)[1].listk = "null"

\* The positions of the rows of instance o in a list of dictionary forms.
Positions(F, o) ==
    {k \in 1..Len(F) : F[k].typ = ObjType[o] /\ F[k].row.id = objs[o].id}

\* C21: flatten ordering.  In dictionary_form(record) the row of a nested
\* record comes before the row of every record that refers to it, the
\* record's own row is the last element, the elements of a nested list
\* have their rows in list order, and the stored list of identifiers has
\* the order of the list.
C21_FlattenOrdering ==
    (Flattens /\ DistinctIds(objs, ev.roots))
    => \A i \in 1..Len(ev.roots) :
         LET root == ev.roots[i]
             F == DictionaryForm(objs, root)
         IN /\ Len(F) \in Positions(F, root)
            /\ \A p \in Reach(objs, <<root>>) :
                 LET sub == Children(objs, p)
                     l == IF objs[p].haslist THEN objs[p].list ELSE <<>>
                 IN /\ \A kp \in Positions(F, p) : \A c \in 1..Len(sub) :
                         \E kc \in Positions(F, sub[c]) : kc < kp
                    /\ \A kp \in Positions(F, p) : \A a, b \in 1..Len(l) :
                         a < b => \E ka \in Positions(F, l[a]), kb \in Positions(F, l[b]) :
                                     ka < kb /\ kb < kp
                    /\ \A kp \in Positions(F, p) :
                         F[kp].row.list = [k \in 1..Len(l) |-> objs[l[k]].id]

\* A tree of depth three with a list of two nested records has been
\* flattened.
C21_Witness ==
    /\ ev.op = "add" /\ ev.roots = <<1>> /\ DistinctIds(objs, ev.roots)
    /\ objs[1].single = 3 /\ objs[3].single = 5 /\ objs[1].list = <<3, 4>>
    /\ Len(DictionaryForm(objs, 1)) = 6

\* C22: add is append-only.  After add(batch) every row stored before the
\* call is stored with the same identifier and field values at the same
\* position, the rows of the batch follow them in batch order, and the
\* files of the other types are as they were.
C22_AddAppendOnly ==
    ev.op = "add"
    => /\ ~ev.raised
       /\ \A i \in 1..Len(ev.batch) :
            NowRows(ev.batch[i].typ) = PreRows(ev.batch[i].typ) \o ev.batch[i].rows
       /\ \A t \in Types :
            (\A i \in 1..Len(ev.batch) : ev.batch[i].typ # t)
            => NowRows(t) = PreRows(t)

\* Two rows have been added to a file that held one row.
C22_Witness ==
    /\ ev.op = "add" /\ ~ev.raised
    /\ Len(PreRows(ev.typ)) = 1
    /\ Len(ev.batch[1].rows) = 2
    /\ Len(NowRows(ev.typ)) = 3

\* C23: the ledger gains entries only through add.  next_id, contains_id,
\* record, records and update leave every ledger as it was, every ledger
\* line is an identifier that was passed to add, and an identifier that
\* next_id returned and that was not passed to add is not reported by
\* contains_id.
C23_LedgerOnlyThroughAdd ==
    /\ ev.op \in {"next_id", "contains_id", "record", "records", "update"}
         => ledger = ev.preLedger
    /\ \A db \in DBs, t \in Types :
         /\ SeqRange(ledger[db][t].lines) \subseteq added[db][t]
         /\ \A id \in returned[db][t] \ added[db][t] : ~ContainsId(ledger[db][t], id)
    /\ (ev.op = "contains_id" /\ ev.id \notin added[ev.db][ev.typ]) => ev.ret = 0

\* contains_id has been asked for an identifier that next_id returned and
\* that was not added, while a larger identifier is in the ledger.
C23_Witness ==
    /\ ev.op = "contains_id" /\ ev.ret = 0
    /\ ev.id \in returned[ev.db][ev.typ] \ added[ev.db][ev.typ]
    /\ ledger[ev.db][ev.typ].lines = <<2>>

\* A data file with a record line that does not parse.
Damaged(f) == \E i \in 1..Len(f) : f[i].t = "junk"

\* C24: an update or delete whose scan meets a record line that cannot be
\* parsed raises, and the data file is exactly as it was before the call.
C24_BadLineFailsWhole ==
    (/\ Damaged(ev.preData[ev.db][ev.typ])
     /\ \/ ev.op = "update" /\ ev.batch[1].rows # <<>>
        \/ ev.op = "delete" /\ ev.ids # {})
    => ev.raised /\ data[ev.db][ev.typ] = ev.preData[ev.db][ev.typ]

\* A delete of a stored identifier has failed on a file whose second record
\* line is damaged.
C24_Witness ==
    /\ ev.op = "delete" /\ ev.raised /\ ev.ids = {1}
    /\ ev.preData[ev.db][ev.typ] = FileOf(<<1, 0>>)
    /\ data[ev.db][ev.typ] = FileOf(<<1, 0>>)

\* The identifiers a caller can ask for.
AskIds == CallerIds \cup {3, 4}

\* C25: after add, write and delete calls the identifiers in a type's
\* ledger are the identifiers that have a record line in its data file:
\* contains_id answers true exactly for the identifiers record() finds.
C25_LedgerMatchesData ==
    \A t \in Types :
        /\ SeqRange(ledger[DbName][t].lines) = RowIds(FileRows(data[DbName][t]))
        /\ \A id \in AskIds :
             ContainsId(ledger[DbName][t], id)
                <=> (CoderRecord(data[DbName][t], id).rows # <<>>)

\* A delete has removed one of two stored records; ledger and data file
\* both hold the other one only.
C25_Witness ==
    /\ ev.op = "delete" /\ ~ev.raised /\ ev.typ = "M"
    /\ Cardinality(RowIds(PreRows("M"))) = 2
    /\ Cardinality(RowIds(NowRows("M"))) = 1
    /\ SeqRange(ledger[DbName]["M"].lines) = RowIds(NowRows("M"))

\* C26: in a database filled through write and delete alone no data file
\* has two record lines with the same identifier.
C26_WriteNeverDuplicates ==
    \A t \in Types : \A id \in AskIds :
        RowsWithId(FileRows(data[DbName][t]), id) <= 1

\* Two records sharing a sub-record have been written in one call, after
\* an earlier write had stored the sub-record: it has one row.
C26_Witness ==
    /\ ev.op = "write" /\ ~ev.raised /\ ev.roots = <<1, 2>>
    /\ objs[1].single = 4 /\ objs[2].single = 4
    /\ RowsWithId(PreRows("C"), objs[4].id) = 1
    /\ RowsWithId(NowRows("C"), objs[4].id) = 1
    /\ RowsWithId(NowRows("M"), objs[1].id) = 1

\* C27: row order is kept by the file backend.  records(type) returns the
\* rows in the order of their record lines, which add extends at the end;
\* update leaves every row at its position; delete leaves the surviving
\* rows in their previous relative order.
C27_RowOrderKept ==
    /\ (ev.op = "records" /\ ~ev.raised) => ev.rows = PreRows(ev.typ)
    /\ ev.op \in {"record", "records"} => NowRows(ev.typ) = PreRows(ev.typ)
    /\ ev.op = "add"
         => RowIdSeq(NowRows(ev.typ))
              = RowIdSeq(PreRows(ev.typ)) \o RowIdSeq(ev.batch[1].rows)
    /\ ev.op = "update"
         => /\ RowIdSeq(NowRows(ev.typ)) = RowIdSeq(PreRows(ev.typ))
            /\ \A i \in 1..Len(PreRows(ev.typ)) :
                 PreRows(ev.typ)[i].id \notin RowIds(ev.batch[1].rows)
                 => NowRows(ev.typ)[i] = PreRows(ev.typ)[i]
    /\ (ev.op = "delete" /\ ~ev.raised)
         => NowRows(ev.typ) = KeepRows(PreRows(ev.typ), ev.ids)

\* records has returned the rows 2, 1 in the order they were added.
C27_Witness ==
    /\ ev.op = "records" /\ ~ev.raised
    /\ RowIdSeq(ev.rows) = <<2, 1>>
    /\ ledger[ev.db][ev.typ].lines = <<2, 1>>

\* C28: delete does not cascade.  delete(T, ids) leaves the data file and
\* the ledger of every other type as they were, so record(subtype, id)
\* finds the nested records of a deleted parent as before.
C28_DeleteDoesNotCascade ==
    ev.op = "delete"
    => \A t \in Types \ {ev.typ} :
          /\ data[DbName][t] = ev.preData[DbName][t]
          /\ ledger[DbName][t] = ev.preLedger[DbName][t]
          /\ \A id \in AskIds :
               CoderRecord(data[DbName][t], id) = CoderRecord(ev.preData[DbName][t], id)

\* A stored "M" with a nested "C" has been deleted; the row of the "C" is
\* still found.
C28_Witness ==
    /\ ev.op = "delete" /\ ~ev.raised /\ ev.typ = "M"
    /\ \E i \in 1..Len(PreRows("M")) :
          LET r == PreRows("M")[i]
          IN /\ r.id \in ev.ids
             /\ r.single # 0
             /\ FirstWithId(NowRows("M"), r.id) = <<>>
             /\ CoderRecord(data[DbName]["C"], r.single).rows # <<>>

\* C29: update(batch) never changes which identifiers are stored: every
\* data file has the same sequence of identifiers before and after the
\* call, and after a call that completed every record line whose
\* identifier occurs in the batch holds the batch's row.
C29_UpdateReplacesEveryLine ==
    ev.op = "update"
    => /\ \A t \in Types : RowIdSeq(NowRows(t)) = RowIdSeq(PreRows(t))
       /\ ~ev.raised
            => \A k \in 1..Len(NowRows(ev.typ)) :
                  NowRows(ev.typ)[k].id \in RowIds(ev.batch[1].rows)
                  => <<NowRows(ev.typ)[k]>>
                       = FirstWithId(ev.batch[1].rows, NowRows(ev.typ)[k].id)

\* C30: next_id never hands out an identifier that is in use: the value
\* next_id(type) returns is not in the type's ledger at the time of the
\* call, also after adds of records whose identifier the caller has set.
C30_NextIdNotInLedger ==
    ev.op = "next_id"
    => ev.ret \notin SeqRange(ev.preLedger[ev.db][ev.typ].lines)

\* C31: identifiers are allocated per database.  On one coder instance
\* that serves two databases the first next_id(type, B) returns the
\* maximum of B's ledger for the type plus one, whatever next_id(type, A)
\* calls were made before.
C31_FirstNextIdFromOwnLedger ==
    (ev.op = "next_id" /\ ev.preCalls[ev.db][ev.typ] = 0)
    => ev.ret = SetMax(SeqRange(ev.preLedger[ev.db][ev.typ].lines) \cup {0}) + 1

\* C32: delete is all-or-nothing across the two files of a type: when
\* delete(type, ids) raises, the ledger and the data file of the type are
\* exactly as they were before the call.
C32_DeleteAllOrNothing ==
    (ev.op = "delete" /\ ev.raised)
    => /\ ledger[ev.db][ev.typ] = ev.preLedger[ev.db][ev.typ]
       /\ data[ev.db][ev.typ] = ev.preData[ev.db][ev.typ]

\* C33: every Results stream can be consumed through the iteration
\* protocol: a for statement over the stream of records, of filtered and of
\* sorted yields without error the elements all() would return.
C33_IterationYieldsAll ==
    (rev.op = "loop" /\ FromProducer(rev.pre, rev.s))
    => /\ ~rev.raised
       /\ rev.out = All(rev.pre, rev.s).out

====
